---- MODULE Spec2Model ----
(***************************************************************************)
(* MOS-6502 emulator (chris-pikul/mos6502): the CPU control (Reset, Tick,  *)
(* IRQ, NMI), the addressing-mode evaluator, the instruction executor, the *)
(* opcode table and the Memory device they run on.                         *)
(*                                                                         *)
(* byte = uint8_t, word = uint16_t, fast_byte = uint_fast8_t (one byte on  *)
(* the supported toolchains): every assignment to one of them is taken     *)
(* modulo its width.                                                       *)
(***************************************************************************)
EXTENDS Integers, Sequences, FiniteSets, TLC

VARIABLES
    m_PC,             \* word   CPU::m_PC
    m_SP,             \* byte   CPU::m_SP
    m_Acc,            \* byte   CPU::m_Acc
    m_X,              \* byte   CPU::m_X
    m_Y,              \* byte   CPU::m_Y
    m_ProcStatus,     \* byte   CPU::m_ProcStatus.value
    m_CyclesRem,      \* fast_byte CPU::m_CyclesRem
    m_CyclesExecuted, \* unsigned int CPU::m_CyclesExecuted (the tick bound keeps it far below 2^32)
    m_WasSupplied,    \* bool   CPU::m_WasSupplied
    m_SuppliedValue,  \* byte   CPU::m_SuppliedValue
    m_Size,           \* size_t Memory::m_Size
    m_Data,           \* Memory::m_Data, the bytes that are not 0 (address -> byte)
    h_op,             \* history: the last call ("Init", "Reset", "Tick", "IRQ", "NMI", or a call of Memory)
    h_args,           \* history: the arguments of the last call of Memory (<<>> for a call of CPU)
    h_pre,            \* history: the CPU and memory as they were when that call began
    h_ret,            \* history: what the last Tick or the last call of Memory returned
    h_row,            \* history: the table row the last Tick decoded (<<>> if none)
    h_log,            \* history: the bus accesses of the last call, in order
    h_trace,          \* history: the instructions executed so far, oldest first
    h_ticksLeft,      \* model bound: Tick calls still allowed
    h_callsLeft,      \* model bound: Reset/IRQ/NMI calls still allowed
    source,           \* the argument of Program::CompileString
    position,         \* the character of source the tokenizer loop is at (from 1)
    lineNumber,       \* unsigned int lineNumber
    pcOffset,         \* word pcOffset, the location counter
    tempStr,          \* std::string tempStr
    symbol,           \* std::string symbol
    instruction,      \* Instruction instruction
    setStartingPC,    \* bool setStartingPC
    symbols,          \* std::map<std::string, word> symbols
    mode,             \* Mode mode
    m_SourceCode,     \* std::vector<Line> Program::m_SourceCode
    m_ByteCode,       \* std::vector<byte> Program::m_ByteCode
    m_StartingPCOffset, \* word Program::m_StartingPCOffset
    h_parsed,         \* history: what parseInstruction made of each instruction line
    h_outcome         \* history: "" while CompileString runs, "true" once it has returned,
                      \* or the exception that left it

vars == <<m_PC, m_SP, m_Acc, m_X, m_Y, m_ProcStatus, m_CyclesRem, m_CyclesExecuted,
          m_WasSupplied, m_SuppliedValue, m_Size, m_Data,
          h_op, h_args, h_pre, h_ret, h_row, h_log, h_trace, h_ticksLeft, h_callsLeft,
          source, position, lineNumber, pcOffset, tempStr, symbol, instruction,
          setStartingPC, symbols, mode, m_SourceCode, m_ByteCode, m_StartingPCOffset,
          h_parsed, h_outcome>>

\* the assembler's variables
asmVars == <<source, position, lineNumber, pcOffset, tempStr, symbol, instruction,
             setStartingPC, symbols, mode, m_SourceCode, m_ByteCode, m_StartingPCOffset,
             h_parsed, h_outcome>>

\* the CPU's and the memory's variables, and their history
cpuVars == <<m_PC, m_SP, m_Acc, m_X, m_Y, m_ProcStatus, m_CyclesRem, m_CyclesExecuted,
             m_WasSupplied, m_SuppliedValue, m_Size, m_Data,
             h_op, h_args, h_pre, h_ret, h_row, h_log, h_trace, h_ticksLeft, h_callsLeft>>

----------------------------------------------------------------------------
(* Bounds of the model *)

\* Tick calls in one behaviour that starts at the constructed CPU
MaxTicks == 12
\* Reset/IRQ/NMI calls in one behaviour that starts at the constructed CPU
MaxCalls == 2
\* Tick calls in one behaviour that starts in the middle of a run
AnyTicks == 2
\* Reset/IRQ/NMI calls in one behaviour that starts in the middle of a run
AnyCalls == 1
\* Tick calls of a run of a short instruction sequence
SeqTicks == 11
\* Tick calls of a run of one arithmetic instruction
AluTicks == 1
\* Tick calls of a run of the math test program
MathTicks == 62
\* calls made on a Memory of its own
MemCalls == 2
\* Tick calls one run-until-complete command may make
RunTicks == 258

----------------------------------------------------------------------------
(* types.h, utils.h: integer widths and the byte/word macros *)

ByteMod == 256
WordMod == 65536
FastByteMod == 256

ToByte(v) == v % ByteMod
ToWord(v) == v % WordMod
ToFastByte(v) == v % FastByteMod

MAKE_WORD(low, high) == high * 256 + low
GET_HIGH_BYTE(val) == (val \div 256) % 256
GET_LOW_BYTE(val) == val % 256
IS_NEGATIVE(val) == (val \div 128) % 2 = 1

\* address: a union over one 16-bit value; page is its high byte, record its low
Address(val) == val % WordMod
Page(addr) == addr \div 256
Record(addr) == addr % 256

RECURSIVE BitAnd(_, _)
BitAnd(a, b) ==
    IF a = 0 \/ b = 0 THEN 0
    ELSE (a % 2) * (b % 2) + 2 * BitAnd(a \div 2, b \div 2)

RECURSIVE BitOr(_, _)
BitOr(a, b) ==
    IF a = 0 THEN b
    ELSE IF b = 0 THEN a
    ELSE (IF a % 2 = 1 \/ b % 2 = 1 THEN 1 ELSE 0) + 2 * BitOr(a \div 2, b \div 2)

RECURSIVE BitXor(_, _)
BitXor(a, b) ==
    IF a = 0 THEN b
    ELSE IF b = 0 THEN a
    ELSE ((a + b) % 2) + 2 * BitXor(a \div 2, b \div 2)

ADDRESS_STACK == 256
ADDRESS_NMI_VECTOR == 65530
ADDRESS_RESET_VECTOR == 65532
ADDRESS_IRQ_VECTOR == 65534

----------------------------------------------------------------------------
(* CPU::StatusFlag and CPU::Status *)

CARRY == 1
ZERO == 2
INTERRUPT == 4
DECIMAL == 8
BREAK == 16
UNUSED == 32
INT_OVERFLOW == 64
NEGATIVE == 128

\* f is one of the single-bit masks above
HasStatusFlag(p, f) == (p \div f) % 2 = 1
GetStatusFlag(p, f) == (p \div f) % 2
SetStatusFlag(p, f, v) ==
    IF v THEN (IF HasStatusFlag(p, f) THEN p ELSE p + f)
    ELSE (IF HasStatusFlag(p, f) THEN p - f ELSE p)

----------------------------------------------------------------------------
(* instructions.h / instructions.cpp: the opcode table *)

Instructions ==
    {"ADC", "AND", "ASL", "BCC", "BCS", "BEQ", "BIT", "BMI", "BNE", "BPL", "BRK",
     "BVC", "BVS", "CLC", "CLD", "CLI", "CLV", "CMP", "CPX", "CPY", "DEC", "DEX",
     "DEY", "EOR", "INC", "INX", "INY", "JMP", "JSR", "LDA", "LDX", "LDY", "LSR",
     "NOP", "ORA", "PHA", "PHP", "PLA", "PLP", "ROL", "ROR", "RTI", "RTS", "SBC",
     "SEC", "SED", "SEI", "STA", "STX", "STY", "TAX", "TAY", "TSX", "TXA", "TXS",
     "TYA"}

AddressModes ==
    {"ABS", "ABX", "ABY", "ACC", "IMM", "IMP", "IND", "INX", "INY", "REL", "ZPG",
     "ZPX", "ZPY"}

MAX_INSTRUCTIONS == 255

\* word pcOffset = 0x0200 and word m_StartingPCOffset = 0x0200
DefaultPCOffset == 512

\* row i + 1 is InstructionDetails[i]:
\* <<opCode, instruction, addressing, bytesUsed, minCycles, variableCycles>>
InstructionDetails == <<
    <<0, "BRK", "IMP", 1, 7, FALSE>>, <<1, "ORA", "INX", 2, 6, FALSE>>, <<2, "ILL", "ILL", 1, 2, FALSE>>,
    <<3, "ILL", "ILL", 1, 2, FALSE>>, <<4, "ILL", "ILL", 1, 2, FALSE>>, <<5, "ORA", "ZPG", 2, 3, FALSE>>,
    <<6, "ASL", "ZPG", 2, 5, FALSE>>, <<7, "ILL", "ILL", 1, 2, FALSE>>, <<8, "PHP", "IMP", 1, 3, FALSE>>,
    <<9, "ORA", "IMM", 2, 2, FALSE>>, <<10, "ASL", "ACC", 1, 2, FALSE>>, <<11, "ILL", "ILL", 1, 2, FALSE>>,
    <<12, "ILL", "ILL", 1, 2, FALSE>>, <<13, "ORA", "ABS", 3, 4, FALSE>>, <<14, "ASL", "ABS", 3, 6, FALSE>>,
    <<15, "ILL", "ILL", 1, 2, FALSE>>, <<16, "BPL", "REL", 2, 2, TRUE>>, <<17, "ORA", "INY", 2, 5, TRUE>>,
    <<18, "ILL", "ILL", 1, 2, FALSE>>, <<19, "ILL", "ILL", 1, 2, FALSE>>, <<20, "ILL", "ILL", 1, 2, FALSE>>,
    <<21, "ORA", "ZPX", 2, 4, FALSE>>, <<22, "ASL", "ZPX", 2, 6, FALSE>>, <<23, "ILL", "ILL", 1, 2, FALSE>>,
    <<24, "CLC", "IMP", 1, 2, FALSE>>, <<25, "ORA", "ABY", 3, 4, TRUE>>, <<26, "ILL", "ILL", 1, 2, FALSE>>,
    <<27, "ILL", "ILL", 1, 2, FALSE>>, <<28, "ILL", "ILL", 1, 2, FALSE>>, <<29, "ORA", "ABX", 3, 4, TRUE>>,
    <<30, "ASL", "ABX", 3, 7, FALSE>>, <<31, "ILL", "ILL", 1, 2, FALSE>>, <<32, "JSR", "ABS", 3, 6, FALSE>>,
    <<33, "AND", "INX", 2, 6, FALSE>>, <<34, "ILL", "ILL", 1, 2, FALSE>>, <<35, "ILL", "ILL", 1, 2, FALSE>>,
    <<36, "BIT", "ZPG", 2, 3, FALSE>>, <<37, "AND", "ZPG", 2, 3, FALSE>>, <<38, "ROL", "ZPG", 2, 5, FALSE>>,
    <<39, "ILL", "ILL", 1, 2, FALSE>>, <<40, "PLP", "IMP", 1, 4, FALSE>>, <<41, "AND", "IMM", 2, 2, FALSE>>,
    <<42, "ROL", "ACC", 1, 2, FALSE>>, <<43, "ILL", "ILL", 1, 2, FALSE>>, <<44, "BIT", "ABS", 3, 4, FALSE>>,
    <<45, "AND", "ABS", 3, 4, FALSE>>, <<46, "ROL", "ABS", 3, 6, FALSE>>, <<47, "ILL", "ILL", 1, 2, FALSE>>,
    <<48, "BMI", "REL", 2, 2, TRUE>>, <<49, "AND", "INY", 2, 5, TRUE>>, <<50, "ILL", "ILL", 1, 2, FALSE>>,
    <<51, "ILL", "ILL", 1, 2, FALSE>>, <<52, "ILL", "ILL", 1, 2, FALSE>>, <<53, "AND", "ZPX", 2, 4, FALSE>>,
    <<54, "ROL", "ZPX", 2, 6, FALSE>>, <<55, "ILL", "ILL", 1, 2, FALSE>>, <<56, "SEC", "IMP", 1, 2, FALSE>>,
    <<57, "AND", "ABY", 3, 4, TRUE>>, <<58, "ILL", "ILL", 1, 2, FALSE>>, <<59, "ILL", "ILL", 1, 2, FALSE>>,
    <<60, "ILL", "ILL", 1, 2, FALSE>>, <<61, "AND", "ABX", 3, 4, TRUE>>, <<62, "ROL", "ABX", 3, 7, FALSE>>,
    <<63, "ILL", "ILL", 1, 2, FALSE>>, <<64, "RTI", "IMP", 1, 6, FALSE>>, <<65, "EOR", "INX", 2, 6, FALSE>>,
    <<66, "ILL", "ILL", 1, 2, FALSE>>, <<67, "ILL", "ILL", 1, 2, FALSE>>, <<68, "ILL", "ILL", 1, 2, FALSE>>,
    <<69, "EOR", "ZPG", 2, 3, FALSE>>, <<70, "LSR", "ZPG", 2, 5, FALSE>>, <<71, "ILL", "ILL", 1, 2, FALSE>>,
    <<72, "PHA", "IMP", 1, 3, FALSE>>, <<73, "EOR", "IMM", 2, 2, FALSE>>, <<74, "LSR", "ACC", 1, 2, FALSE>>,
    <<75, "ILL", "ILL", 1, 2, FALSE>>, <<76, "JMP", "ABS", 3, 3, FALSE>>, <<77, "EOR", "ABS", 3, 4, FALSE>>,
    <<78, "LSR", "ABS", 3, 6, FALSE>>, <<79, "ILL", "ILL", 1, 2, FALSE>>, <<80, "BVC", "REL", 2, 2, TRUE>>,
    <<81, "EOR", "INY", 2, 5, TRUE>>, <<82, "ILL", "ILL", 1, 2, FALSE>>, <<83, "ILL", "ILL", 1, 2, FALSE>>,
    <<84, "ILL", "ILL", 1, 2, FALSE>>, <<85, "EOR", "ZPX", 2, 4, FALSE>>, <<86, "LSR", "ZPX", 2, 6, FALSE>>,
    <<87, "ILL", "ILL", 1, 2, FALSE>>, <<88, "CLI", "IMP", 1, 2, FALSE>>, <<89, "EOR", "ABY", 3, 4, TRUE>>,
    <<90, "ILL", "ILL", 1, 2, FALSE>>, <<91, "ILL", "ILL", 1, 2, FALSE>>, <<92, "ILL", "ILL", 1, 2, FALSE>>,
    <<93, "EOR", "ABX", 3, 4, TRUE>>, <<94, "LSR", "ABX", 3, 7, FALSE>>, <<95, "ILL", "ILL", 1, 2, FALSE>>,
    <<96, "RTS", "IMP", 1, 6, FALSE>>, <<97, "ADC", "INX", 2, 6, FALSE>>, <<98, "ILL", "ILL", 1, 2, FALSE>>,
    <<99, "ILL", "ILL", 1, 2, FALSE>>, <<100, "ILL", "ILL", 1, 2, FALSE>>, <<101, "ADC", "ZPG", 2, 3, FALSE>>,
    <<102, "ROR", "ZPG", 2, 5, FALSE>>, <<103, "ILL", "ILL", 1, 2, FALSE>>, <<104, "PLA", "IMP", 1, 4, FALSE>>,
    <<105, "ADC", "IMM", 2, 2, FALSE>>, <<106, "ROR", "ACC", 1, 2, FALSE>>, <<107, "ILL", "ILL", 1, 2, FALSE>>,
    <<108, "JMP", "IND", 3, 5, FALSE>>, <<109, "ADC", "ABS", 3, 4, FALSE>>, <<110, "ROR", "ABS", 3, 6, FALSE>>,
    <<111, "ILL", "ILL", 1, 2, FALSE>>, <<112, "BVC", "REL", 2, 2, TRUE>>, <<113, "ADC", "INY", 2, 5, TRUE>>,
    <<114, "ILL", "ILL", 1, 2, FALSE>>, <<115, "ILL", "ILL", 1, 2, FALSE>>, <<116, "ILL", "ILL", 1, 2, FALSE>>,
    <<117, "ADC", "ZPX", 2, 4, FALSE>>, <<118, "ROR", "ZPX", 2, 6, FALSE>>, <<119, "ILL", "ILL", 1, 2, FALSE>>,
    <<120, "SEI", "IMP", 1, 2, FALSE>>, <<121, "ADC", "ABY", 3, 4, TRUE>>, <<122, "ILL", "ILL", 1, 2, FALSE>>,
    <<123, "ILL", "ILL", 1, 2, FALSE>>, <<124, "ILL", "ILL", 1, 2, FALSE>>, <<125, "ADC", "ABX", 3, 4, TRUE>>,
    <<126, "ROR", "ABX", 3, 7, FALSE>>, <<127, "ILL", "ILL", 1, 2, FALSE>>, <<128, "ILL", "ILL", 1, 2, FALSE>>,
    <<129, "STA", "INX", 2, 6, FALSE>>, <<130, "ILL", "ILL", 1, 2, FALSE>>, <<131, "ILL", "ILL", 1, 2, FALSE>>,
    <<132, "STY", "ZPG", 2, 3, FALSE>>, <<133, "STA", "ZPG", 2, 3, FALSE>>, <<134, "STX", "ZPG", 2, 3, FALSE>>,
    <<135, "ILL", "ILL", 1, 2, FALSE>>, <<136, "DEY", "IMP", 1, 2, FALSE>>, <<137, "ILL", "ILL", 1, 2, FALSE>>,
    <<138, "TXA", "IMP", 1, 2, FALSE>>, <<139, "ILL", "ILL", 1, 2, FALSE>>, <<140, "STY", "ABS", 3, 4, FALSE>>,
    <<141, "STA", "ABS", 3, 4, FALSE>>, <<142, "STX", "ABS", 3, 4, FALSE>>, <<143, "ILL", "ILL", 1, 2, FALSE>>,
    <<144, "BCC", "REL", 2, 2, TRUE>>, <<145, "STA", "INY", 2, 6, FALSE>>, <<146, "ILL", "ILL", 1, 2, FALSE>>,
    <<147, "ILL", "ILL", 1, 2, FALSE>>, <<148, "STY", "ZPX", 2, 4, FALSE>>, <<149, "STA", "ZPX", 2, 4, FALSE>>,
    <<150, "STX", "ZPY", 2, 4, FALSE>>, <<151, "ILL", "ILL", 1, 2, FALSE>>, <<152, "TYA", "IMP", 1, 2, FALSE>>,
    <<153, "STA", "ABY", 3, 5, FALSE>>, <<154, "TXS", "IMP", 1, 2, FALSE>>, <<155, "ILL", "ILL", 1, 2, FALSE>>,
    <<156, "ILL", "ILL", 1, 2, FALSE>>, <<157, "STA", "ABX", 3, 5, FALSE>>, <<158, "ILL", "ILL", 1, 2, FALSE>>,
    <<159, "ILL", "ILL", 1, 2, FALSE>>, <<160, "LDY", "IMM", 2, 2, FALSE>>, <<161, "LDA", "INX", 2, 6, FALSE>>,
    <<162, "LDX", "IMM", 2, 2, FALSE>>, <<163, "ILL", "ILL", 1, 2, FALSE>>, <<164, "LDY", "ZPG", 2, 3, FALSE>>,
    <<165, "LDA", "ZPG", 2, 3, FALSE>>, <<166, "LDX", "ZPG", 2, 3, FALSE>>, <<167, "ILL", "ILL", 1, 2, FALSE>>,
    <<168, "TAY", "IMP", 1, 2, FALSE>>, <<169, "LDA", "IMM", 2, 2, FALSE>>, <<170, "TAX", "IMP", 1, 2, FALSE>>,
    <<171, "ILL", "ILL", 1, 2, FALSE>>, <<172, "LDY", "ABS", 3, 4, FALSE>>, <<173, "LDA", "ABS", 3, 4, FALSE>>,
    <<174, "LDX", "ABS", 3, 4, FALSE>>, <<175, "ILL", "ILL", 1, 2, FALSE>>, <<176, "BCS", "REL", 2, 2, TRUE>>,
    <<177, "LDA", "INY", 2, 5, TRUE>>, <<178, "ILL", "ILL", 1, 2, FALSE>>, <<179, "ILL", "ILL", 1, 2, FALSE>>,
    <<180, "LDY", "ZPX", 2, 4, FALSE>>, <<181, "LDA", "ZPX", 2, 4, FALSE>>, <<182, "LDX", "ZPY", 2, 4, FALSE>>,
    <<183, "ILL", "ILL", 1, 2, FALSE>>, <<184, "CLV", "IMP", 1, 2, FALSE>>, <<185, "LDA", "ABY", 3, 4, TRUE>>,
    <<186, "TSX", "IMP", 1, 2, FALSE>>, <<187, "ILL", "ILL", 1, 2, FALSE>>, <<188, "LDY", "ABX", 3, 4, TRUE>>,
    <<189, "LDA", "ABX", 3, 4, TRUE>>, <<190, "LDX", "ABY", 3, 4, TRUE>>, <<191, "ILL", "ILL", 1, 2, FALSE>>,
    <<192, "CPY", "IMM", 2, 2, FALSE>>, <<193, "CMP", "INX", 2, 6, FALSE>>, <<194, "ILL", "ILL", 1, 2, FALSE>>,
    <<195, "ILL", "ILL", 1, 2, FALSE>>, <<196, "CPY", "ZPG", 2, 3, FALSE>>, <<197, "CMP", "ZPG", 2, 3, FALSE>>,
    <<198, "DEC", "ZPG", 2, 5, FALSE>>, <<199, "ILL", "ILL", 1, 2, FALSE>>, <<200, "INY", "IMP", 1, 2, FALSE>>,
    <<201, "CMP", "IMM", 2, 2, FALSE>>, <<202, "DEX", "IMP", 1, 2, FALSE>>, <<203, "ILL", "ILL", 1, 2, FALSE>>,
    <<204, "CPY", "ABS", 3, 4, FALSE>>, <<205, "CMP", "ABS", 3, 4, FALSE>>, <<206, "DEC", "ABS", 3, 6, FALSE>>,
    <<207, "ILL", "ILL", 1, 2, FALSE>>, <<208, "BNE", "REL", 2, 2, TRUE>>, <<209, "CMP", "INY", 2, 5, TRUE>>,
    <<210, "ILL", "ILL", 1, 2, FALSE>>, <<211, "ILL", "ILL", 1, 2, FALSE>>, <<212, "ILL", "ILL", 1, 2, FALSE>>,
    <<213, "CMP", "ZPX", 2, 4, FALSE>>, <<214, "DEC", "ZPX", 2, 6, FALSE>>, <<215, "ILL", "ILL", 1, 2, FALSE>>,
    <<216, "CLD", "IMP", 1, 2, FALSE>>, <<217, "CMP", "ABY", 3, 4, TRUE>>, <<218, "ILL", "ILL", 1, 2, FALSE>>,
    <<219, "ILL", "ILL", 1, 2, FALSE>>, <<220, "ILL", "ILL", 1, 2, FALSE>>, <<221, "CMP", "ABX", 3, 4, TRUE>>,
    <<222, "DEC", "ABX", 3, 7, FALSE>>, <<223, "ILL", "ILL", 1, 2, FALSE>>, <<224, "CPX", "IMM", 2, 2, FALSE>>,
    <<225, "SBC", "INX", 2, 6, FALSE>>, <<226, "ILL", "ILL", 1, 2, FALSE>>, <<227, "ILL", "ILL", 1, 2, FALSE>>,
    <<228, "CPX", "ZPG", 2, 3, FALSE>>, <<229, "SBC", "ZPG", 2, 3, FALSE>>, <<230, "INC", "ZPG", 2, 5, FALSE>>,
    <<231, "ILL", "ILL", 1, 2, FALSE>>, <<232, "INX", "IMP", 1, 2, FALSE>>, <<233, "SBC", "IMM", 2, 2, FALSE>>,
    <<234, "NOP", "IMP", 1, 2, FALSE>>, <<235, "ILL", "ILL", 1, 2, FALSE>>, <<236, "CPX", "ABS", 3, 4, FALSE>>,
    <<237, "SBC", "ABS", 3, 4, FALSE>>, <<238, "INC", "ABS", 3, 6, FALSE>>, <<239, "ILL", "ILL", 1, 2, FALSE>>,
    <<240, "BEQ", "REL", 2, 2, TRUE>>, <<241, "SBC", "INY", 2, 5, TRUE>>, <<242, "ILL", "ILL", 1, 2, FALSE>>,
    <<243, "ILL", "ILL", 1, 2, FALSE>>, <<244, "ILL", "ILL", 1, 2, FALSE>>, <<245, "SBC", "ZPX", 2, 4, FALSE>>,
    <<246, "INC", "ZPX", 2, 6, FALSE>>, <<247, "ILL", "ILL", 1, 2, FALSE>>, <<248, "SED", "IMP", 1, 2, FALSE>>,
    <<249, "SBC", "ABY", 3, 4, TRUE>>, <<250, "ILL", "ILL", 1, 2, FALSE>>, <<251, "ILL", "ILL", 1, 2, FALSE>>,
    <<252, "ILL", "ILL", 1, 2, FALSE>>, <<253, "SBC", "ABX", 3, 4, TRUE>>, <<254, "INC", "ABX", 3, 7, FALSE>>
>>

RowOpCode(row) == row[1]
RowInstruction(row) == row[2]
RowAddressing(row) == row[3]
RowBytesUsed(row) == row[4]
RowMinCycles(row) == row[5]
RowVariableCycles(row) == row[6]

\* the first row with this instruction and addressing mode; the first ILL row
\* (index 2) when there is none
FindInstructionDetail(inst, addr) ==
    LET found == {k \in 1..Len(InstructionDetails) :
                     /\ RowInstruction(InstructionDetails[k]) = inst
                     /\ RowAddressing(InstructionDetails[k]) = addr}
    IN IF found = {} THEN InstructionDetails[3]
       ELSE InstructionDetails[CHOOSE k \in found : \A l \in found : k <= l]

----------------------------------------------------------------------------
(* memory.cpp: Memory over a zero-filled vector of m_Size bytes.  A memory   *)
(* value `mem` holds the bytes that differ from 0.                           *)

Store(mem, addr, data) ==
    IF data = 0
    THEN [x \in (DOMAIN mem) \ {addr} |-> mem[x]]
    ELSE [x \in (DOMAIN mem) \cup {addr} |-> IF x = addr THEN data ELSE mem[x]]

Memory_ReadByte(mem, addr) ==
    IF addr < m_Size
    THEN (IF addr \in DOMAIN mem THEN mem[addr] ELSE 0)
    ELSE 0

Memory_ReadWord(mem, addr) ==
    LET low == Memory_ReadByte(mem, addr)
        high == Memory_ReadByte(mem, Address(addr + 1))
    IN MAKE_WORD(low, high)

Memory_WriteByte(mem, addr, data) ==
    IF addr < m_Size THEN Store(mem, addr, data) ELSE mem

\* the second test is made on size_t: addr + 1 does not wrap to 0
Memory_WriteWord(mem, addr, data) ==
    LET low == IF addr < m_Size THEN Store(mem, addr, GET_LOW_BYTE(data)) ELSE mem
    IN IF addr + 1 < m_Size THEN Store(low, addr + 1, GET_HIGH_BYTE(data)) ELSE low

\* std::min(bytes.size(), m_Size - offset.value): the difference is a size_t
\* and wraps to a value above any buffer length when the offset lies beyond
\* the size
CopyLength(offset, bytes) ==
    IF offset <= m_Size
    THEN (IF Len(bytes) < m_Size - offset THEN Len(bytes) ELSE m_Size - offset)
    ELSE Len(bytes)

\* the stores memcpy makes, in order, from &m_Data[offset] on
CopyStores(offset, bytes) ==
    [i \in 1..CopyLength(offset, bytes) |-> <<"copy", offset + i - 1, bytes[i]>>]

\* m_Data after the first k of these stores; a store at or beyond m_Size goes
\* behind the vector's buffer and leaves m_Data alone
RECURSIVE Copied(_, _, _)
Copied(mem, stores, k) ==
    IF k = 0 THEN mem
    ELSE IF stores[k][2] < m_Size
         THEN Store(Copied(mem, stores, k - 1), stores[k][2], stores[k][3])
         ELSE Copied(mem, stores, k - 1)

Memory_WriteBytes(mem, offset, bytes) ==
    Copied(mem, CopyStores(offset, bytes), CopyLength(offset, bytes))

----------------------------------------------------------------------------
(* cpu.cpp: bus access and the stack primitives.  The operators below work  *)
(* on a record c of the CPU registers, the memory behind the bus and the    *)
(* log of bus accesses of the running call.                                 *)

CpuState ==
    [PC |-> m_PC, SP |-> m_SP, A |-> m_Acc, X |-> m_X, Y |-> m_Y,
     P |-> m_ProcStatus, CR |-> m_CyclesRem, CE |-> m_CyclesExecuted,
     ws |-> m_WasSupplied, sv |-> m_SuppliedValue,
     mem |-> m_Data, log |-> <<>>]

\* a bus access: kind ("read", "write", "push", "pull"), address, byte
Access(kind, addr, data) == <<kind, addr, data>>

ReadByte(c, addr) == Memory_ReadByte(c.mem, addr)

ReadWord(c, addr) == Memory_ReadWord(c.mem, addr)

WriteByte(c, addr, data) ==
    [c EXCEPT !.mem = Memory_WriteByte(@, addr, data),
              !.log = Append(@, Access("write", addr, data))]

\* PushToStack with the decrement before the write
PushToStackPreDecrement(c, data) ==
    LET pointer == Address(ADDRESS_STACK + ToByte(c.SP - 1))
    IN [c EXCEPT !.SP = ToByte(c.SP - 1),
                 !.mem = Memory_WriteByte(@, pointer, data),
                 !.log = Append(@, Access("push", pointer, data))]

PushToStack(c, data) ==
    LET pointer == Address(ADDRESS_STACK + c.SP)
    IN [c EXCEPT !.SP = ToByte(c.SP - 1),
                 !.mem = Memory_WriteByte(@, pointer, data),
                 !.log = Append(@, Access("push", pointer, data))]

\* PullFromStack with the read before the increment
PullFromStackPostIncrement(c) ==
    LET pointer == Address(ADDRESS_STACK + c.SP)
        data == ReadByte(c, pointer)
    IN [c |-> [c EXCEPT !.SP = ToByte(c.SP + 1), !.log = Append(@, Access("pull", pointer, data))],
        data |-> data]

PullFromStack(c) ==
    LET sp == ToByte(c.SP + 1)
        pointer == Address(ADDRESS_STACK + sp)
        data == ReadByte(c, pointer)
    IN [c |-> [c EXCEPT !.SP = sp, !.log = Append(@, Access("pull", pointer, data))],
        data |-> data]

ClearSupplied(c) == [c EXCEPT !.ws = FALSE, !.sv = 0]

SetSupplied(c, value) == [c EXCEPT !.ws = TRUE, !.sv = value]

FetchData(c, addr) == IF c.ws THEN c.sv ELSE ReadByte(c, addr)

\* the bus access FetchData makes (none when the value was supplied)
Fetched(c, addr) ==
    IF c.ws THEN c
    ELSE [c EXCEPT !.log = Append(@, Access("read", addr, ReadByte(c, addr)))]

SetFlag(c, f, v) == [c EXCEPT !.P = SetStatusFlag(@, f, v)]

SetZN(c, value) ==
    SetFlag(SetFlag(c, ZERO, value = 0), NEGATIVE, IS_NEGATIVE(value))

----------------------------------------------------------------------------
(* cpu_addressing.cpp: each mode gives the CPU after the operand fetch, the *)
(* effective address and the cycles it reports through outCycles.           *)

Operand(c, addr, cycles) == [c |-> c, addr |-> addr, cycles |-> cycles]

\* reads the two operand bytes at PC; PC moves past them
FetchPointer(c) ==
    LET low == ReadByte(c, c.PC)
        pc1 == ToWord(c.PC + 1)
        high == ReadByte(c, pc1)
    IN [c |-> [c EXCEPT !.PC = ToWord(pc1 + 1),
                        !.log = @ \o <<Access("read", c.PC, low), Access("read", pc1, high)>>],
        low |-> low, high |-> high]

\* reads the one operand byte at PC; PC moves past it
FetchOperandByte(c) ==
    LET b == ReadByte(c, c.PC)
    IN [c |-> [c EXCEPT !.PC = ToWord(c.PC + 1),
                        !.log = Append(@, Access("read", c.PC, b))],
        b |-> b]

Addr_ABS(c) ==
    LET f == FetchPointer(c)
    IN Operand(f.c, Address(MAKE_WORD(f.low, f.high)), 3)

Addr_ABX(c) ==
    LET f == FetchPointer(c)
        addr == Address(MAKE_WORD(f.low, f.high) + c.X)
    IN Operand(f.c, addr, IF Page(addr) # f.high THEN 4 ELSE 3)

Addr_ABY(c) ==
    LET f == FetchPointer(c)
        addr == Address(MAKE_WORD(f.low, f.high) + c.Y)
    IN Operand(f.c, addr, IF Page(addr) # f.high THEN 4 ELSE 3)

Addr_ACC(c) == Operand(SetSupplied(c, c.A), Address(c.PC), 1)

Addr_IMM(c) == Operand([c EXCEPT !.PC = ToWord(c.PC + 1)], Address(c.PC), 1)

Addr_IMP(c) == Operand(SetSupplied(c, c.A), 0, 1)

\* indirect addressing that always reads the high byte from pointer + 1
Addr_INDWithoutPageBug(c) ==
    LET f == FetchPointer(c)
        pointer == Address(MAKE_WORD(f.low, f.high))
        low == ReadByte(c, pointer)
        hiAddr == Address(pointer + 1)
        high == ReadByte(c, hiAddr)
    IN Operand([f.c EXCEPT !.log = @ \o <<Access("read", pointer, low),
                                          Access("read", hiAddr, high)>>],
               Address(MAKE_WORD(low, high)), 4)

Addr_IND(c) ==
    LET f == FetchPointer(c)
        pointer == Address(MAKE_WORD(f.low, f.high))
        low == ReadByte(c, pointer)
        hiAddr == IF Record(pointer) = 255
                  THEN Address(BitAnd(pointer, 65280))
                  ELSE Address(pointer + 1)
        high == ReadByte(c, hiAddr)
    IN Operand([f.c EXCEPT !.log = @ \o <<Access("read", pointer, low),
                                          Access("read", hiAddr, high)>>],
               Address(MAKE_WORD(low, high)), 4)

Addr_INX(c) ==
    LET f == FetchOperandByte(c)
        table == f.b
        xword == c.X
        loAddr == Address(BitAnd(table + xword, 255))
        hiAddr == Address(BitAnd(table + xword + 1, 65280))
        low == ReadByte(c, loAddr)
        high == ReadByte(c, hiAddr)
    IN Operand([f.c EXCEPT !.log = @ \o <<Access("read", loAddr, low),
                                          Access("read", hiAddr, high)>>],
               Address(MAKE_WORD(low, high)), 5)

Addr_INY(c) ==
    LET f == FetchOperandByte(c)
        table == f.b
        loAddr == Address(BitAnd(table, 255))
        hiAddr == Address(BitAnd(table + 1, 255))
        low == ReadByte(c, loAddr)
        high == ReadByte(c, hiAddr)
        addr == Address(MAKE_WORD(low, high) + c.Y)
    IN Operand([f.c EXCEPT !.log = @ \o <<Access("read", loAddr, low),
                                          Access("read", hiAddr, high)>>],
               addr, IF Page(addr) # high THEN 5 ELSE 4)

\* rel is a byte: `rel |= 0xFF00` is stored back into 8 bits
\* relative addressing that reads the offset and leaves PC on it
Addr_RELWithoutStep(c) ==
    LET f == FetchOperandByte(c)
        rel == IF BitAnd(f.b, 128) # 0 THEN ToByte(BitOr(f.b, 65280)) ELSE f.b
    IN Operand([f.c EXCEPT !.PC = c.PC], Address(rel), 1)

Addr_REL(c) ==
    LET f == FetchOperandByte(c)
        rel == IF BitAnd(f.b, 128) # 0 THEN ToByte(BitOr(f.b, 65280)) ELSE f.b
    IN Operand(f.c, Address(rel), 1)

Addr_ZPG(c) ==
    LET f == FetchOperandByte(c)
    IN Operand(f.c, Address(f.b), 2)

\* zero page,X without the mask to the low byte
Addr_ZPXUnmasked(c) ==
    LET f == FetchOperandByte(c)
    IN Operand(f.c, Address(f.b + c.X), 3)

Addr_ZPX(c) ==
    LET f == FetchOperandByte(c)
    IN Operand(f.c, Address(BitAnd(f.b + c.X, 255)), 3)

Addr_ZPY(c) ==
    LET f == FetchOperandByte(c)
    IN Operand(f.c, Address(BitAnd(f.b + c.Y, 255)), 3)

\* ExecuteAddressing that charges a cycle for an illegal addressing mode
ExecuteAddressingChargingIllegal(c0, addrMode) ==
    LET c == ClearSupplied(c0)
    IN CASE addrMode = "ABS" -> Addr_ABS(c)
         [] addrMode = "ABX" -> Addr_ABX(c)
         [] addrMode = "ABY" -> Addr_ABY(c)
         [] addrMode = "ACC" -> Addr_ACC(c)
         [] addrMode = "IMM" -> Addr_IMM(c)
         [] addrMode = "IMP" -> Addr_IMP(c)
         [] addrMode = "IND" -> Addr_IND(c)
         [] addrMode = "INX" -> Addr_INX(c)
         [] addrMode = "INY" -> Addr_INY(c)
         [] addrMode = "REL" -> Addr_REL(c)
         [] addrMode = "ZPG" -> Addr_ZPG(c)
         [] addrMode = "ZPX" -> Addr_ZPX(c)
         [] addrMode = "ZPY" -> Addr_ZPY(c)
         [] OTHER -> Operand(c, 0, 1)

\* outCycles keeps the caller's 0 for ILL and for a mode outside the enum
ExecuteAddressing(c0, addrMode) ==
    LET c == ClearSupplied(c0)
    IN CASE addrMode = "ABS" -> Addr_ABS(c)
         [] addrMode = "ABX" -> Addr_ABX(c)
         [] addrMode = "ABY" -> Addr_ABY(c)
         [] addrMode = "ACC" -> Addr_ACC(c)
         [] addrMode = "IMM" -> Addr_IMM(c)
         [] addrMode = "IMP" -> Addr_IMP(c)
         [] addrMode = "IND" -> Addr_IND(c)
         [] addrMode = "INX" -> Addr_INX(c)
         [] addrMode = "INY" -> Addr_INY(c)
         [] addrMode = "REL" -> Addr_REL(c)
         [] addrMode = "ZPG" -> Addr_ZPG(c)
         [] addrMode = "ZPX" -> Addr_ZPX(c)
         [] addrMode = "ZPY" -> Addr_ZPY(c)
         [] OTHER -> Operand(c, 0, 0)

----------------------------------------------------------------------------
(* cpu_instructions.cpp: each handler gives the CPU after the instruction   *)
(* and the cycles it returns.                                               *)

Result(c, cycles) == [c |-> c, cycles |-> cycles]

\* ~v of a word promoted to int, as far as its low 16 bits go (the uses mask with 0x0080)
BitNot(v) == 65535 - v

Branch(c, addr) ==
    LET nextPC == Address(c.PC + addr)
        cycles == IF Page(nextPC) # BitAnd(c.PC, 65280) THEN 3 ELSE 2
    IN Result([c EXCEPT !.PC = nextPC], cycles)

BranchIf(c, addr, taken) == IF taken THEN Branch(c, addr) ELSE Result(c, 1)

\* the BCD reading the decimal branches of ADC and SBC make of a byte
BcdValue(b) == BitAnd(b, 15) + (BitAnd(b \div 16, 15) * 10)

\* binary ADC that leaves the carry-in out of the sum
Ins_ADCWithoutCarryIn(c, addr) ==
    LET val == FetchData(c, addr)
        c1 == Fetched(c, addr)
        result == ToWord(c.A + val)
        overflow == BitAnd(BitAnd(BitNot(BitXor(c.A, val)), BitXor(c.A, result)), 128) # 0
        c2 == SetFlag(SetFlag(c1, CARRY, result > 255), INT_OVERFLOW, overflow)
        c3 == SetFlag(SetFlag(c2, ZERO, GET_LOW_BYTE(result) = 0), NEGATIVE, IS_NEGATIVE(result))
    IN Result([c3 EXCEPT !.A = GET_LOW_BYTE(result)], 1)

Ins_ADC(c, addr) ==
    LET val == FetchData(c, addr)
        c1 == Fetched(c, addr)
        carry == GetStatusFlag(c.P, CARRY)
        \* decimal branch
        temp == BcdValue(c.A) + BcdValue(val) + carry
        hundreds == temp \div 100
        tens == (temp - (hundreds * 100)) \div 10
        ones == temp - (hundreds * 100) - (tens * 10)
        dresult == ToWord(BitOr(tens * 16, ones))
        \* binary branch
        bresult == ToWord(c.A + val + carry)
        overflow == BitAnd(BitAnd(BitNot(BitXor(c.A, val)), BitXor(c.A, bresult)), 128) # 0
        decimal == HasStatusFlag(c.P, DECIMAL)
        result == IF decimal THEN dresult ELSE bresult
        c2 == IF decimal
              THEN SetFlag(c1, CARRY, dresult > 153)
              ELSE SetFlag(SetFlag(c1, CARRY, bresult > 255), INT_OVERFLOW, overflow)
        c3 == SetFlag(SetFlag(c2, ZERO, GET_LOW_BYTE(result) = 0), NEGATIVE, IS_NEGATIVE(result))
    IN Result([c3 EXCEPT !.A = GET_LOW_BYTE(result)], 1)

Ins_AND(c, addr) ==
    LET acc == BitAnd(c.A, FetchData(c, addr))
    IN Result(SetZN([Fetched(c, addr) EXCEPT !.A = acc], acc), 1)

Ins_ASL(c, addr) ==
    LET result == ToWord(FetchData(c, addr) * 2)
        c1 == SetFlag(Fetched(c, addr), CARRY, result > 255)
        c2 == SetFlag(SetFlag(c1, ZERO, GET_LOW_BYTE(result) = 0), NEGATIVE, IS_NEGATIVE(result))
    IN Result([c2 EXCEPT !.A = BitAnd(result, 255)], 1)

Ins_BCC(c, addr) == BranchIf(c, addr, ~HasStatusFlag(c.P, CARRY))

Ins_BCS(c, addr) == BranchIf(c, addr, HasStatusFlag(c.P, CARRY))

Ins_BEQ(c, addr) == BranchIf(c, addr, HasStatusFlag(c.P, ZERO))

Ins_BIT(c, addr) ==
    LET value == FetchData(c, addr)
        result == BitAnd(c.A, value)
        c1 == SetFlag(Fetched(c, addr), ZERO, result = 0)
        c2 == SetFlag(c1, INT_OVERFLOW, BitAnd(value, 64) # 0)
    IN Result(SetFlag(c2, NEGATIVE, IS_NEGATIVE(value)), 1)

Ins_BMI(c, addr) == BranchIf(c, addr, HasStatusFlag(c.P, NEGATIVE))

Ins_BNE(c, addr) == BranchIf(c, addr, ~HasStatusFlag(c.P, ZERO))

Ins_BPL(c, addr) == BranchIf(c, addr, ~HasStatusFlag(c.P, NEGATIVE))

\* BRK that pushes the address of its padding byte
Ins_BRKWithoutPadding(c, addr) ==
    LET pc == c.PC
        c1 == PushToStack([c EXCEPT !.PC = pc], GET_HIGH_BYTE(pc))
        c2 == PushToStack(c1, GET_LOW_BYTE(pc))
        c3 == PushToStack(c2, c2.P)
        low == ReadByte(c3, 65534)
        high == ReadByte(c3, 65535)
        c4 == [c3 EXCEPT !.PC = MAKE_WORD(low, high),
                         !.log = @ \o <<Access("read", 65534, low), Access("read", 65535, high)>>]
    IN Result(SetFlag(c4, BREAK, TRUE), 6)

Ins_BRK(c, addr) ==
    LET pc == ToWord(c.PC + 1)
        c1 == PushToStack([c EXCEPT !.PC = pc], GET_HIGH_BYTE(pc))
        c2 == PushToStack(c1, GET_LOW_BYTE(pc))
        c3 == PushToStack(c2, c2.P)
        low == ReadByte(c3, 65534)
        high == ReadByte(c3, 65535)
        c4 == [c3 EXCEPT !.PC = MAKE_WORD(low, high),
                         !.log = @ \o <<Access("read", 65534, low), Access("read", 65535, high)>>]
    IN Result(SetFlag(c4, BREAK, TRUE), 6)

Ins_BVC(c, addr) == BranchIf(c, addr, ~HasStatusFlag(c.P, INT_OVERFLOW))

Ins_BVS(c, addr) == BranchIf(c, addr, HasStatusFlag(c.P, INT_OVERFLOW))

Ins_CLC(c, addr) == Result(SetFlag(c, CARRY, FALSE), 1)

Ins_CLD(c, addr) == Result(SetFlag(c, DECIMAL, FALSE), 1)

Ins_CLI(c, addr) == Result(SetFlag(c, INTERRUPT, FALSE), 1)

Ins_CLV(c, addr) == Result(SetFlag(c, INT_OVERFLOW, FALSE), 1)

\* CMP, CPX and CPY: the same body over A, X and Y
Compare(c, addr, reg) ==
    LET value == FetchData(c, addr)
        result == ToByte(reg - value)
        c1 == SetFlag(Fetched(c, addr), CARRY, reg >= value)
    IN Result(SetZN(c1, result), 1)

Ins_CMP(c, addr) == Compare(c, addr, c.A)

Ins_CPX(c, addr) == Compare(c, addr, c.X)

Ins_CPY(c, addr) == Compare(c, addr, c.Y)

Ins_DEC(c, addr) ==
    LET value == ToByte(FetchData(c, addr) - 1)
    IN Result(SetZN(WriteByte(Fetched(c, addr), addr, value), value), 3)

Ins_DEX(c, addr) ==
    LET x == ToByte(c.X - 1) IN Result(SetZN([c EXCEPT !.X = x], x), 1)

Ins_DEY(c, addr) ==
    LET y == ToByte(c.Y - 1) IN Result(SetZN([c EXCEPT !.Y = y], y), 1)

Ins_EOR(c, addr) ==
    LET acc == BitXor(c.A, FetchData(c, addr))
    IN Result(SetZN([Fetched(c, addr) EXCEPT !.A = acc], acc), 1)

Ins_INC(c, addr) ==
    LET value == ToByte(FetchData(c, addr) + 1)
    IN Result(SetZN(WriteByte(Fetched(c, addr), addr, value), value), 3)

Ins_INX(c, addr) ==
    LET x == ToByte(c.X + 1) IN Result(SetZN([c EXCEPT !.X = x], x), 1)

Ins_INY(c, addr) ==
    LET y == ToByte(c.Y + 1) IN Result(SetZN([c EXCEPT !.Y = y], y), 1)

Ins_JMP(c, addr) == Result([c EXCEPT !.PC = addr], 1)

\* JSR that pushes PC as the operand fetch left it
Ins_JSRWithoutDecrement(c, addr) ==
    LET c1 == PushToStack(c, GET_HIGH_BYTE(c.PC))
        c2 == PushToStack(c1, GET_LOW_BYTE(c.PC))
    IN Result([c2 EXCEPT !.PC = addr], 3)

Ins_JSR(c, addr) ==
    LET pc == ToWord(c.PC - 1)
        c1 == PushToStack([c EXCEPT !.PC = pc], GET_HIGH_BYTE(pc))
        c2 == PushToStack(c1, GET_LOW_BYTE(pc))
    IN Result([c2 EXCEPT !.PC = addr], 3)

\* LDA that leaves the flags alone
Ins_LDAWithoutFlags(c, addr) ==
    Result([Fetched(c, addr) EXCEPT !.A = FetchData(c, addr)], 1)

Ins_LDA(c, addr) ==
    LET v == FetchData(c, addr)
    IN Result(SetZN([Fetched(c, addr) EXCEPT !.A = v], v), 1)

Ins_LDX(c, addr) ==
    LET v == FetchData(c, addr)
    IN Result(SetZN([Fetched(c, addr) EXCEPT !.X = v], v), 1)

Ins_LDY(c, addr) ==
    LET v == FetchData(c, addr)
    IN Result(SetZN([Fetched(c, addr) EXCEPT !.Y = v], v), 1)

Ins_LSR(c, addr) ==
    LET value == FetchData(c, addr)
        result == value \div 2
        c1 == SetFlag(Fetched(c, addr), CARRY, BitAnd(value, 1) # 0)
    IN Result([SetZN(c1, result) EXCEPT !.A = result], 1)

Ins_NOP(c, addr) == Result(c, 1)

Ins_ORA(c, addr) ==
    LET acc == BitOr(c.A, FetchData(c, addr))
    IN Result(SetZN([Fetched(c, addr) EXCEPT !.A = acc], acc), 1)

Ins_PHA(c, addr) == Result(PushToStack(c, c.A), 2)

Ins_PHP(c, addr) == Result(PushToStack(c, c.P), 2)

Ins_PLA(c, addr) ==
    LET p == PullFromStack(c)
    IN Result(SetZN([p.c EXCEPT !.A = p.data], p.data), 3)

Ins_PLP(c, addr) ==
    LET p == PullFromStack(c)
    IN Result(SetFlag([p.c EXCEPT !.P = p.data], UNUSED, TRUE), 3)

\* ROL and ROR: write-back to A when the operand was supplied, else to memory
RotateStore(c, addr, result) ==
    IF c.ws THEN Result([c EXCEPT !.A = result], 1)
    ELSE Result(WriteByte(c, addr, result), 2)

Ins_ROL(c, addr) ==
    LET value == FetchData(c, addr)
        result == ToByte(BitOr(value * 2, GetStatusFlag(c.P, CARRY)))
        c1 == SetFlag(Fetched(c, addr), CARRY, BitAnd(value, 128) # 0)
    IN RotateStore(SetZN(c1, result), addr, result)

\* result is a byte: the carry shifted to bit 8 does not fit in it
Ins_ROR(c, addr) ==
    LET value == FetchData(c, addr)
        result == ToByte(BitOr(value \div 2, GetStatusFlag(c.P, CARRY) * 256))
        c1 == SetFlag(Fetched(c, addr), CARRY, BitAnd(value, 1) # 0)
    IN RotateStore(SetZN(c1, result), addr, result)

Ins_RTI(c, addr) ==
    LET p == PullFromStack(c)
        c1 == SetFlag([p.c EXCEPT !.P = p.data], UNUSED, TRUE)
        lo == PullFromStack(c1)
        hi == PullFromStack(lo.c)
    IN Result([hi.c EXCEPT !.PC = MAKE_WORD(lo.data, hi.data)], 5)

Ins_RTS(c, addr) ==
    LET lo == PullFromStack(c)
        hi == PullFromStack(lo.c)
    IN Result([hi.c EXCEPT !.PC = ToWord(MAKE_WORD(lo.data, hi.data) + 1)], 5)

\* |v| of an int
Abs(v) == IF v < 0 THEN 0 - v ELSE v

\* SBC whose binary branch leaves a sum below 0x0100 as it is
Ins_SBCWithoutWrapCorrection(c, addr) ==
    LET val == FetchData(c, addr)
        c1 == Fetched(c, addr)
        \* decimal branch; temp / 100 truncates towards zero
        temp0 == BcdValue(c.A) - BcdValue(val) - (IF HasStatusFlag(c.P, CARRY) THEN 0 ELSE 1)
        temp == IF temp0 < 0 THEN temp0 + 2 ELSE temp0
        hundreds == Abs(temp) \div 100
        tens0 == (Abs(temp) - (hundreds * 100)) \div 10
        ones0 == Abs(temp) - (hundreds * 100) - (tens0 * 10)
        tens == IF temp < 0 THEN 9 - tens0 ELSE tens0
        ones == IF temp < 0 THEN 9 - ones0 ELSE ones0
        dresult == ToWord(BitOr(tens * 16, ones))
        \* binary branch
        carry == GetStatusFlag(c.P, CARRY)
        sum == ToWord(c.A + BitXor(val, 255) + carry)
        bresult == sum
        overflow == BitAnd(BitAnd(BitNot(BitXor(c.A, val)), BitXor(c.A, bresult)), 128) # 0
        decimal == HasStatusFlag(c.P, DECIMAL)
        result == IF decimal THEN dresult ELSE bresult
        c2 == IF decimal
              THEN SetFlag(c1, CARRY, temp > 0)
              ELSE SetFlag(SetFlag(c1, CARRY, bresult < 255), INT_OVERFLOW, overflow)
        c3 == SetFlag(SetFlag(c2, ZERO, GET_LOW_BYTE(result) = 0), NEGATIVE, IS_NEGATIVE(result))
    IN Result([c3 EXCEPT !.A = GET_LOW_BYTE(result)], 1)

Ins_SBC(c, addr) ==
    LET val == FetchData(c, addr)
        c1 == Fetched(c, addr)
        \* decimal branch; temp / 100 truncates towards zero
        temp0 == BcdValue(c.A) - BcdValue(val) - (IF HasStatusFlag(c.P, CARRY) THEN 0 ELSE 1)
        temp == IF temp0 < 0 THEN temp0 + 2 ELSE temp0
        hundreds == Abs(temp) \div 100
        tens0 == (Abs(temp) - (hundreds * 100)) \div 10
        ones0 == Abs(temp) - (hundreds * 100) - (tens0 * 10)
        tens == IF temp < 0 THEN 9 - tens0 ELSE tens0
        ones == IF temp < 0 THEN 9 - ones0 ELSE ones0
        dresult == ToWord(BitOr(tens * 16, ones))
        \* binary branch
        carry == GetStatusFlag(c.P, CARRY)
        sum == ToWord(c.A + BitXor(val, 255) + carry)
        bresult == IF BitAnd(sum, 65280) = 0 THEN ToWord(sum + 1) ELSE sum
        overflow == BitAnd(BitAnd(BitNot(BitXor(c.A, val)), BitXor(c.A, bresult)), 128) # 0
        decimal == HasStatusFlag(c.P, DECIMAL)
        result == IF decimal THEN dresult ELSE bresult
        c2 == IF decimal
              THEN SetFlag(c1, CARRY, temp > 0)
              ELSE SetFlag(SetFlag(c1, CARRY, bresult < 255), INT_OVERFLOW, overflow)
        c3 == SetFlag(SetFlag(c2, ZERO, GET_LOW_BYTE(result) = 0), NEGATIVE, IS_NEGATIVE(result))
    IN Result([c3 EXCEPT !.A = GET_LOW_BYTE(result)], 1)

Ins_SEC(c, addr) == Result(SetFlag(c, CARRY, TRUE), 1)

Ins_SED(c, addr) == Result(SetFlag(c, DECIMAL, TRUE), 1)

Ins_SEI(c, addr) == Result(SetFlag(c, INTERRUPT, TRUE), 1)

Ins_STA(c, addr) == Result(WriteByte(c, addr, c.A), 1)

Ins_STX(c, addr) == Result(WriteByte(c, addr, c.X), 1)

Ins_STY(c, addr) == Result(WriteByte(c, addr, c.Y), 1)

Ins_TAX(c, addr) == Result(SetZN([c EXCEPT !.X = c.A], c.A), 1)

Ins_TAY(c, addr) == Result(SetZN([c EXCEPT !.Y = c.A], c.A), 1)

Ins_TSX(c, addr) == Result(SetZN([c EXCEPT !.X = c.SP], c.SP), 1)

Ins_TXA(c, addr) == Result(SetZN([c EXCEPT !.A = c.X], c.X), 1)

Ins_TXS(c, addr) == Result([c EXCEPT !.SP = c.X], 1)

Ins_TYA(c, addr) == Result(SetZN([c EXCEPT !.A = c.Y], c.Y), 1)

\* ILL and an instruction outside the enum execute nothing and return 0
ExecuteInstruction(c, instr, addr) ==
    CASE instr = "ADC" -> Ins_ADC(c, addr) [] instr = "AND" -> Ins_AND(c, addr)
      [] instr = "ASL" -> Ins_ASL(c, addr) [] instr = "BCC" -> Ins_BCC(c, addr)
      [] instr = "BCS" -> Ins_BCS(c, addr) [] instr = "BEQ" -> Ins_BEQ(c, addr)
      [] instr = "BIT" -> Ins_BIT(c, addr) [] instr = "BMI" -> Ins_BMI(c, addr)
      [] instr = "BNE" -> Ins_BNE(c, addr) [] instr = "BPL" -> Ins_BPL(c, addr)
      [] instr = "BRK" -> Ins_BRK(c, addr) [] instr = "BVC" -> Ins_BVC(c, addr)
      [] instr = "BVS" -> Ins_BVS(c, addr) [] instr = "CLC" -> Ins_CLC(c, addr)
      [] instr = "CLD" -> Ins_CLD(c, addr) [] instr = "CLI" -> Ins_CLI(c, addr)
      [] instr = "CLV" -> Ins_CLV(c, addr) [] instr = "CMP" -> Ins_CMP(c, addr)
      [] instr = "CPX" -> Ins_CPX(c, addr) [] instr = "CPY" -> Ins_CPY(c, addr)
      [] instr = "DEC" -> Ins_DEC(c, addr) [] instr = "DEX" -> Ins_DEX(c, addr)
      [] instr = "DEY" -> Ins_DEY(c, addr) [] instr = "EOR" -> Ins_EOR(c, addr)
      [] instr = "INC" -> Ins_INC(c, addr) [] instr = "INX" -> Ins_INX(c, addr)
      [] instr = "INY" -> Ins_INY(c, addr) [] instr = "JMP" -> Ins_JMP(c, addr)
      [] instr = "JSR" -> Ins_JSR(c, addr) [] instr = "LDA" -> Ins_LDA(c, addr)
      [] instr = "LDX" -> Ins_LDX(c, addr) [] instr = "LDY" -> Ins_LDY(c, addr)
      [] instr = "LSR" -> Ins_LSR(c, addr) [] instr = "NOP" -> Ins_NOP(c, addr)
      [] instr = "ORA" -> Ins_ORA(c, addr) [] instr = "PHA" -> Ins_PHA(c, addr)
      [] instr = "PHP" -> Ins_PHP(c, addr) [] instr = "PLA" -> Ins_PLA(c, addr)
      [] instr = "PLP" -> Ins_PLP(c, addr) [] instr = "ROL" -> Ins_ROL(c, addr)
      [] instr = "ROR" -> Ins_ROR(c, addr) [] instr = "RTI" -> Ins_RTI(c, addr)
      [] instr = "RTS" -> Ins_RTS(c, addr) [] instr = "SBC" -> Ins_SBC(c, addr)
      [] instr = "SEC" -> Ins_SEC(c, addr) [] instr = "SED" -> Ins_SED(c, addr)
      [] instr = "SEI" -> Ins_SEI(c, addr) [] instr = "STA" -> Ins_STA(c, addr)
      [] instr = "STX" -> Ins_STX(c, addr) [] instr = "STY" -> Ins_STY(c, addr)
      [] instr = "TAX" -> Ins_TAX(c, addr) [] instr = "TAY" -> Ins_TAY(c, addr)
      [] instr = "TSX" -> Ins_TSX(c, addr) [] instr = "TXA" -> Ins_TXA(c, addr)
      [] instr = "TXS" -> Ins_TXS(c, addr) [] instr = "TYA" -> Ins_TYA(c, addr)
      [] OTHER -> Result(c, 0)

----------------------------------------------------------------------------
(* cpu.cpp: CPU control *)

\* CPU::CPU over a bus that reaches `mem`
Constructed(mem) ==
    [PC |-> 0, SP |-> 0, A |-> 0, X |-> 0, Y |-> 0, P |-> 0, CR |-> 0, CE |-> 0,
     ws |-> FALSE, sv |-> 0, mem |-> mem, log |-> <<>>]

\* the two byte reads Memory::ReadWord makes
WordReads(c, addr) ==
    <<Access("read", addr, ReadByte(c, addr)),
      Access("read", Address(addr + 1), ReadByte(c, Address(addr + 1)))>>

\* Reset without the write of m_ProcStatus
ResetKeepingStatus(c) ==
    [c EXCEPT !.A = 0, !.X = 0, !.Y = 0,
              !.PC = ReadWord(c, ADDRESS_RESET_VECTOR),
              !.SP = 253,
              !.log = @ \o WordReads(c, ADDRESS_RESET_VECTOR)]

Reset(c) ==
    [c EXCEPT !.A = 0, !.X = 0, !.Y = 0,
              !.PC = ReadWord(c, ADDRESS_RESET_VECTOR),
              !.SP = 253,
              !.P = BitOr(0, UNUSED),
              !.log = @ \o WordReads(c, ADDRESS_RESET_VECTOR)]

\* the body IRQ and NMI share: push PC and P, load PC from the vector
Interrupt(c, vector, cycles) ==
    LET c1 == PushToStack(c, GET_HIGH_BYTE(c.PC))
        c2 == PushToStack(c1, GET_LOW_BYTE(c.PC))
        c3 == SetFlag(SetFlag(SetFlag(c2, BREAK, FALSE), INTERRUPT, TRUE), UNUSED, TRUE)
        c4 == PushToStack(c3, c3.P)
    IN [c4 EXCEPT !.PC = ReadWord(c4, vector),
                  !.CR = ToFastByte(@ + cycles),
                  !.log = @ \o WordReads(c4, vector)]

\* IRQ without the test of the interrupt-disable flag
IRQUnmasked(c) == Interrupt(c, ADDRESS_IRQ_VECTOR, 7)

IRQ(c) ==
    IF HasStatusFlag(c.P, INTERRUPT) THEN c ELSE Interrupt(c, ADDRESS_IRQ_VECTOR, 7)

NMI(c) == Interrupt(c, ADDRESS_NMI_VECTOR, 8)

\* the fields of InstructionDetails[opcode] that Tick reads.  The array has
\* MAX_INSTRUCTIONS rows: the read of row 255 is past its end and yields
\* whatever bytes lie there, two enum bytes of any value ("?": a value outside
\* the enum).
Decoded(opcode) ==
    IF opcode < MAX_INSTRUCTIONS
    THEN {<<RowInstruction(InstructionDetails[opcode + 1]),
            RowAddressing(InstructionDetails[opcode + 1])>>}
    ELSE (Instructions \cup {"ILL", "?"}) \X (AddressModes \cup {"ILL", "?"})

\* a busy Tick that leaves the pending cycles as they are
TickBusyWithoutDecrement(c) == [c EXCEPT !.CE = @ + 1]

\* a busy Tick that also steps PC
TickBusyStepping(c) == [c EXCEPT !.CE = @ + 1, !.CR = ToFastByte(@ - 1), !.PC = ToWord(@ + 1)]

\* Tick while cycles remain
TickBusy(c) == [c EXCEPT !.CE = @ + 1, !.CR = ToFastByte(@ - 1)]

\* the fetching Tick without its closing SetStatusFlag(UNUSED)
TickFetchWithoutUnused(c, row) ==
    LET opcode == ReadByte(c, Address(c.PC))
        c1 == [c EXCEPT !.CE = @ + 1,
                        !.PC = ToWord(@ + 1),
                        !.log = Append(@, Access("read", Address(c.PC), opcode))]
        a == ExecuteAddressing(c1, row[2])
        i == ExecuteInstruction(a.c, row[1], a.addr)
    IN [i.c EXCEPT !.CR = ToFastByte(@ + ToFastByte(a.cycles + i.cycles))]

\* Tick that fetches the opcode at PC; row is what the table lookup gave
TickFetch(c, row) ==
    LET opcode == ReadByte(c, Address(c.PC))
        c1 == [c EXCEPT !.CE = @ + 1,
                        !.PC = ToWord(@ + 1),
                        !.log = Append(@, Access("read", Address(c.PC), opcode))]
        a == ExecuteAddressing(c1, row[2])
        i == ExecuteInstruction(a.c, row[1], a.addr)
    IN SetFlag([i.c EXCEPT !.CR = ToFastByte(@ + ToFastByte(a.cycles + i.cycles))],
               UNUSED, TRUE)

\* a Tick that reports the cycles it found rather than the cycles it leaves
TickReturnBeforeDecrement(c) == c.CR + 1 > 0

\* what Tick returns, from the CPU it leaves behind (both paths: m_CyclesRem > 0)
TickReturn(c) == c.CR > 0

OpcodeAt(c) == ReadByte(c, Address(c.PC))

----------------------------------------------------------------------------
(* The state machine: the public calls of CPU, made by the shell (main.cpp) *)

Snapshot(c) ==
    [PC |-> c.PC, SP |-> c.SP, A |-> c.A, X |-> c.X, Y |-> c.Y, P |-> c.P,
     CR |-> c.CR, CE |-> c.CE, mem |-> c.mem]

\* one entry of h_trace: a call that was not a busy tick
\* a Program just constructed (program.h 64-67), no CompileString under way
NoProgram ==
    /\ source = "" /\ position = 1 /\ lineNumber = 1
    /\ pcOffset = DefaultPCOffset
    /\ tempStr = "" /\ symbol = "" /\ instruction = "ILL"
    /\ setStartingPC = FALSE
    /\ symbols = [key \in {} |-> 0]
    /\ mode = "IDLE"
    /\ m_SourceCode = <<>> /\ m_ByteCode = <<>>
    /\ m_StartingPCOffset = DefaultPCOffset
    /\ h_parsed = <<>> /\ h_outcome = ""

Executed(op, opcode, c0, c1) ==
    [op |-> op, opcode |-> opcode,
     A0 |-> c0.A, SP0 |-> c0.SP, P0 |-> c0.P, PC0 |-> c0.PC,
     A1 |-> c1.A, SP1 |-> c1.SP, P1 |-> c1.P, PC1 |-> c1.PC, log |-> c1.log,
     CR1 |-> c1.CR, CE1 |-> c1.CE]

Commit(c) ==
    /\ m_PC' = c.PC
    /\ m_SP' = c.SP
    /\ m_Acc' = c.A
    /\ m_X' = c.X
    /\ m_Y' = c.Y
    /\ m_ProcStatus' = c.P
    /\ m_CyclesRem' = c.CR
    /\ m_CyclesExecuted' = c.CE
    /\ m_WasSupplied' = c.ws
    /\ m_SuppliedValue' = c.sv
    /\ m_Data' = c.mem
    /\ h_log' = c.log
    /\ h_pre' = Snapshot(CpuState)
    /\ h_args' = <<>>
    /\ UNCHANGED m_Size
    /\ UNCHANGED asmVars

Call(op, c) ==
    /\ h_callsLeft > 0
    /\ h_callsLeft' = h_callsLeft - 1
    /\ Commit(c)
    /\ h_op' = op
    /\ h_ret' = FALSE
    /\ h_row' = <<>>
    /\ h_trace' = Append(h_trace, Executed(op, -1, CpuState, c))
    /\ UNCHANGED h_ticksLeft

DoReset == Call("Reset", Reset(CpuState))

DoIRQ == Call("IRQ", IRQ(CpuState))

DoNMI == Call("NMI", NMI(CpuState))

DoTick ==
    /\ h_ticksLeft > 0
    /\ h_ticksLeft' = h_ticksLeft - 1
    /\ h_op' = "Tick"
    /\ UNCHANGED h_callsLeft
    /\ IF m_CyclesRem > 0
       THEN /\ Commit(TickBusy(CpuState))
            /\ h_ret' = TickReturn(TickBusy(CpuState))
            /\ h_row' = <<>>
            /\ UNCHANGED h_trace
       ELSE \E row \in Decoded(OpcodeAt(CpuState)) :
              LET c == TickFetch(CpuState, row)
              IN /\ Commit(c)
                 /\ h_ret' = TickReturn(c)
                 /\ h_row' = <<OpcodeAt(CpuState), row[1], row[2]>>
                 /\ h_trace' = Append(h_trace, Executed(row[1], OpcodeAt(CpuState), CpuState, c))

Next == DoReset \/ DoTick \/ DoIRQ \/ DoNMI

----------------------------------------------------------------------------
(* Initial states *)

\* the memory that holds the bytes of seq from address base on
Bytes(base, seq) ==
    [a \in {base + j - 1 : j \in {k \in 1..Len(seq) : seq[k] # 0}} |-> seq[a - base + 1]]

\* the memory f with the bytes of g written over it
Over(f, g) ==
    [a \in (DOMAIN f) \cup (DOMAIN g) |-> IF a \in DOMAIN g THEN g[a] ELSE f[a]]

\* where main.cpp loads the program, and the vectors it is loaded with
ProgramStart == 512
\* the interrupt handlers sit at the start of pages 3 and 4
IrqHandler == MAKE_WORD(0, 3)
NmiHandler == MAKE_WORD(0, 4)

\* NMI vector, reset vector (main.cpp: the program's start), IRQ vector
Vectors ==
    Bytes(ADDRESS_NMI_VECTOR,
          <<GET_LOW_BYTE(NmiHandler), GET_HIGH_BYTE(NmiHandler),
            GET_LOW_BYTE(ProgramStart), GET_HIGH_BYTE(ProgramStart),
            GET_LOW_BYTE(IrqHandler), GET_HIGH_BYTE(IrqHandler)>>)

\* both interrupt handlers: RTI
Handlers == Over(Bytes(IrqHandler, <<64>>), Bytes(NmiHandler, <<64>>))

\* the programs the shell loads at ProgramStart
Programs ==
    \* LDA #v; PHA; LDA #w; PLA; BRK
    {<<169, v, 72, 169, w, 104, 0>> : v \in {170, 0, 128}, w \in {0, 85}}
    \cup
    \* LDX #s; TXS; PHA; PLA (the stack pointer at both ends of the page)
    {<<162, s, 154, 72, 104>> : s \in {0, 255}}
    \cup
    \* LDX #s; TXS; PHP; PLP
    {<<162, s, 154, 8, 40>> : s \in {0, 255}}
    \cup
    { <<56, 8, 24, 40>>,        \* SEC; PHP; CLC; PLP
      <<248, 8, 216, 40>>,      \* SED; PHP; CLD; PLP
      <<40, 64>>,               \* PLP; RTI (both pull bytes that are 0)
      <<120, 234, 88, 234>>,    \* SEI; NOP; CLI; NOP
      <<32, 6, 2, 234, 234, 234, 96>>,  \* JSR $0206; NOP; NOP; NOP; RTS
      <<76, 0, 2>>,             \* JMP $0200
      <<2, 234>> }              \* an illegal opcode; NOP

\* main.cpp loads at the program's start and points the reset vector there; a
\* program loaded at address 0 is what a CPU ticked without a Reset runs
Images ==
    {Over(Over(Bytes(base, prog), Handlers), Vectors) : prog \in Programs, base \in {ProgramStart, 0}}

Start(c, ticks, calls) ==
    /\ m_PC = c.PC
    /\ m_SP = c.SP
    /\ m_Acc = c.A
    /\ m_X = c.X
    /\ m_Y = c.Y
    /\ m_ProcStatus = c.P
    /\ m_CyclesRem = c.CR
    /\ m_CyclesExecuted = c.CE
    /\ m_WasSupplied = c.ws
    /\ m_SuppliedValue = c.sv
    /\ m_Data = c.mem
    /\ m_Size = 65536
    /\ h_op = "Init"
    /\ h_args = <<>>
    /\ h_pre = Snapshot(c)
    /\ h_ret = FALSE
    /\ h_row = <<>>
    /\ h_log = <<>>
    /\ h_trace = <<>>
    /\ h_ticksLeft = ticks
    /\ h_callsLeft = calls
    /\ NoProgram

\* a CPU just constructed over a 64 KiB memory that holds a loaded program
Init == \E mem \in Images : Start(Constructed(mem), MaxTicks, MaxCalls)

Spec == Init /\ [][Next]_vars

----------------------------------------------------------------------------
(* A run picked up between two instructions: any opcode at PC, with the      *)
(* registers, flags, stack pointer and pending cycles a program can have    *)
(* left behind (LDA/LDX/LDY load any byte, TXS any stack pointer, PLP any   *)
(* flags with U forced, JMP any PC; cycles_remaining is 0 once the shell    *)
(* has drained it and grows by 7 or 8 with every interrupt the shell        *)
(* raises without ticking).                                                 *)

\* the run is picked up at the start of page 6
AnyPC == MAKE_WORD(0, 6)

\* data the operands below reach: zero page, the pages after 0x0200 and the stack
Background ==
    LET zp == Bytes(0, <<17, 6, 0, 0, 19, 20, 7>>)
        zpTop == Bytes(144, <<145, 3, 146>>)
        zpEnd == Bytes(255, <<33, 34, 3>>)
        page2 == Over(Bytes(512, <<7, 66>>), Bytes(767, <<52, 86>>))
        data == Over(Bytes(656, <<129, 130, 131>>), Bytes(AnyPC + 144, <<1, 254>>))
        stack == Over(Bytes(256, <<195, 6, 7>>), Bytes(510, <<195, 5>>))
    IN Over(Over(Over(Over(Over(Over(zp, zpTop), zpEnd), page2), data), stack),
            Over(Handlers, Bytes(ADDRESS_NMI_VECTOR,
                 <<GET_LOW_BYTE(NmiHandler), GET_HIGH_BYTE(NmiHandler),
                   GET_LOW_BYTE(AnyPC), GET_HIGH_BYTE(AnyPC),
                   GET_LOW_BYTE(IrqHandler), GET_HIGH_BYTE(IrqHandler)>>)))

AnyOperandLow == {5, 144, 255}
AnyOperandHigh == {2}
AnyRegisters == {<<0, 0, 0>>, <<129, 1, 255>>}
AnyStackPointers == {253, 1}
AnyStatus == {32, 239, 48}
AnyCyclesRem == {0, 1, 250}

InitAny ==
    \E opcode \in 0..255, low \in AnyOperandLow, high \in AnyOperandHigh,
       r \in AnyRegisters, sp \in AnyStackPointers, p \in AnyStatus, cr \in AnyCyclesRem :
       /\ cr # 0 => (opcode = 234 /\ low = 5 /\ r[1] = 0)
       \* a fetch credits at most 8 cycles; more are pending only after interrupts,
       \* which set I, or after a Reset that followed them (Reset keeps m_CyclesRem)
       /\ cr > 8 => (HasStatusFlag(p, INTERRUPT) \/ (p = UNUSED /\ sp = 253))
       /\ opcode = 255 => (low = 5 /\ sp = 253 /\ p = 32)
       /\ low = 255 => (opcode < MAX_INSTRUCTIONS /\ RowBytesUsed(InstructionDetails[opcode + 1]) >= 2)
       /\ Start([PC |-> AnyPC, SP |-> sp, A |-> r[1], X |-> r[2], Y |-> r[3], P |-> p,
                 CR |-> cr, CE |-> 100, ws |-> FALSE, sv |-> 0,
                 mem |-> Over(Background, Bytes(AnyPC, <<opcode, low, high>>)),
                 log |-> <<>>],
                AnyTicks, AnyCalls)

SpecAny == InitAny /\ [][Next]_vars

----------------------------------------------------------------------------
(* A run of a short instruction sequence placed at AnyPC, ticked to its end *)

\* STA addr; LDA addr through zero page, absolute, zero page,X and absolute,Y
StoreLoadPrograms ==
    { <<133, 16, 165, 16>>,             \* STA $10; LDA $10
      <<141, 16, 2, 173, 16, 2>>,       \* STA $0210; LDA $0210
      <<149, 255, 181, 255>>,           \* STA $FF,X; LDA $FF,X
      <<153, 144, 2, 185, 144, 2>> }    \* STA $0290,Y; LDA $0290,Y

\* JSR to a subroutine a few bytes on: RTS alone, or LDA #1; RTS
CallPrograms ==
    { <<32, 5, 6, 234, 234, 96>>,       \* JSR $0605; NOP; NOP; RTS
      <<32, 4, 6, 234, 169, 1, 96>> }   \* JSR $0604; NOP; LDA #1; RTS

\* every byte in A for the store and load; the stack pointer at both ends of
\* the page for the call; the flags clear, and C, Z and N set (U set in both)
SeqRuns ==
    [prog : StoreLoadPrograms, A : 0..255, SP : {253}, P : {32, 163}]
    \cup
    [prog : CallPrograms, A : {0, 129}, SP : {253, 1, 0}, P : {32, 163}]

InitSeq ==
    \E run \in SeqRuns :
       Start([PC |-> AnyPC, SP |-> run.SP, A |-> run.A, X |-> 1, Y |-> 255, P |-> run.P,
              CR |-> 0, CE |-> 100, ws |-> FALSE, sv |-> 0,
              mem |-> Over(Background, Bytes(AnyPC, run.prog)),
              log |-> <<>>],
             SeqTicks, 0)

SpecSeq == InitSeq /\ [][DoTick]_vars

----------------------------------------------------------------------------
(* One arithmetic instruction with an immediate operand, over every         *)
(* accumulator, operand and carry-in                                        *)

AluBytes == 0..255

\* ADC #m
AluOpcodes == {105}

\* U alone, with C, and both with Z, V and N set beforehand (D clear)
AluStatus == {32, 33, 226, 227}

InitAlu ==
    \E opcode \in AluOpcodes, a \in AluBytes, m \in AluBytes, p \in AluStatus :
       Start([PC |-> AnyPC, SP |-> 253, A |-> a, X |-> 0, Y |-> 0, P |-> p,
              CR |-> 0, CE |-> 100, ws |-> FALSE, sv |-> 0,
              mem |-> Over(Background, Bytes(AnyPC, <<opcode, m>>)),
              log |-> <<>>],
             AluTicks, 0)

SpecAlu == InitAlu /\ [][DoTick]_vars

----------------------------------------------------------------------------
(* Subtraction and decimal arithmetic with an immediate operand: SBC #m in  *)
(* binary mode over every accumulator and operand, ADC #m and SBC #m in     *)
(* decimal mode over the bytes that are two decimal digits, each with both  *)
(* carry-ins                                                                *)

\* the bytes whose two nibbles are decimal digits
BcdBytes == {(16 * t) + o : t \in 0..9, o \in 0..9}

\* U, and U with C, in binary mode; the same with D in decimal mode
ArithRuns ==
    [opcode : {233}, A : AluBytes, M : AluBytes, P : {32, 33}]
    \cup
    [opcode : {105, 233}, A : BcdBytes, M : BcdBytes, P : {40, 41}]

InitArith ==
    \E run \in ArithRuns :
       Start([PC |-> AnyPC, SP |-> 253, A |-> run.A, X |-> 0, Y |-> 0, P |-> run.P,
              CR |-> 0, CE |-> 100, ws |-> FALSE, sv |-> 0,
              mem |-> Over(Background, Bytes(AnyPC, <<run.opcode, run.M>>)),
              log |-> <<>>],
             AluTicks, 0)

SpecArith == InitArith /\ [][DoTick]_vars

----------------------------------------------------------------------------
(* program.asm, the math test program, as main.cpp runs it: assembled to    *)
(* ProgramStart, the reset vector pointed there, the CPU constructed and    *)
(* Reset, then ticked                                                       *)

\* the five blocks of program.asm with the results their comments note
MathBlocks ==
    << [code |-> <<216, 24, 169, 50, 233, 17>>, A |-> 32, C |-> 0],    \* CLD; CLC; LDA #$32; SBC #$11
       [code |-> <<216, 24, 169, 0, 233, 1>>, A |-> 255, C |-> 0],     \* CLD; CLC; LDA #0; SBC #1
       [code |-> <<248, 24, 169, 50, 233, 2>>, A |-> 41, C |-> 1],     \* SED; CLC; LDA #$32; SBC #$02
       [code |-> <<248, 56, 169, 64, 233, 19>>, A |-> 39, C |-> 1],    \* SED; SEC; LDA #$40; SBC #$13
       [code |-> <<248, 24, 169, 33, 233, 52>>, A |-> 135, C |-> 0] >> \* SED; CLC; LDA #$21; SBC #$34

\* each block alone and the five back to back, with the closing BRK
MathPrograms ==
    {MathBlocks[k].code \o <<0>> : k \in DOMAIN MathBlocks}
    \cup
    {MathBlocks[1].code \o MathBlocks[2].code \o MathBlocks[3].code
       \o MathBlocks[4].code \o MathBlocks[5].code \o <<0>>}

MathImages ==
    {Over(Bytes(ProgramStart, prog),
          Bytes(ADDRESS_RESET_VECTOR, <<GET_LOW_BYTE(ProgramStart), GET_HIGH_BYTE(ProgramStart)>>))
       : prog \in MathPrograms}

\* Memory::Make() gives the 64 KiB memory that Reset reads the vector from
InitMath ==
    /\ m_Size = 65536
    /\ \E mem \in MathImages : Start(Reset(Constructed(mem)), MathTicks, 0)

SpecMath == InitMath /\ [][DoTick]_vars

----------------------------------------------------------------------------
(* A Memory of its own: constructed with a size, zero-filled, then read and *)
(* written through its public calls at addresses around its end and at the  *)
(* ends of the 16-bit address range                                         *)

MemSizes == {1, 2, 4, 65536}
MemAddresses == {a \in {0, 1, m_Size - 1, m_Size, m_Size + 1, 65535} : a >= 0 /\ a <= 65535}
MemBytes == {0, 17}
MemWords == {0, MAKE_WORD(178, 161)}
MemBuffers == {<<>>, <<1>>, <<1, 2, 3>>}

\* the accesses to m_Data that ReadByte and WriteByte make
ReadAccess(addr) ==
    IF addr < m_Size THEN <<Access("read", addr, Memory_ReadByte(m_Data, addr))>> ELSE <<>>
WriteAccess(addr, data) ==
    IF addr < m_Size THEN <<Access("write", addr, data)>> ELSE <<>>

MemCall(op, args, ret, mem, log) ==
    /\ h_callsLeft > 0
    /\ h_callsLeft' = h_callsLeft - 1
    /\ m_Data' = mem
    /\ h_op' = op
    /\ h_args' = args
    /\ h_ret' = ret
    /\ h_log' = log
    /\ h_pre' = Snapshot(CpuState)
    /\ h_row' = <<>>
    /\ UNCHANGED <<m_PC, m_SP, m_Acc, m_X, m_Y, m_ProcStatus, m_CyclesRem, m_CyclesExecuted,
                   m_WasSupplied, m_SuppliedValue, m_Size, h_trace, h_ticksLeft>>
    /\ UNCHANGED asmVars

DoReadByte ==
    \E addr \in MemAddresses :
       MemCall("ReadByte", <<addr>>, Memory_ReadByte(m_Data, addr), m_Data, ReadAccess(addr))

DoReadWord ==
    \E addr \in MemAddresses :
       MemCall("ReadWord", <<addr>>, Memory_ReadWord(m_Data, addr), m_Data,
               ReadAccess(addr) \o ReadAccess(Address(addr + 1)))

DoWriteByte ==
    \E addr \in MemAddresses, data \in MemBytes :
       MemCall("WriteByte", <<addr, data>>, TRUE, Memory_WriteByte(m_Data, addr, data),
               WriteAccess(addr, data))

DoWriteWord ==
    \E addr \in MemAddresses, data \in MemWords :
       MemCall("WriteWord", <<addr, data>>, TRUE, Memory_WriteWord(m_Data, addr, data),
               WriteAccess(addr, GET_LOW_BYTE(data)) \o WriteAccess(addr + 1, GET_HIGH_BYTE(data)))

\* a store of the copy behind the end of the vector is undefined: the copy
\* may fault at the first such store or at any later one, or run to its end
\* over what lies behind the buffer; h_ret tells whether it ran to its end
DoWriteBytes ==
    \E offset \in MemAddresses, bytes \in MemBuffers :
       LET stores == CopyStores(offset, bytes)
           outside == {i \in DOMAIN stores : stores[i][2] >= m_Size}
           stops == IF outside = {} THEN {Len(stores)}
                    ELSE {k \in 0..Len(stores) : \E i \in outside : k >= i - 1}
       IN \E k \in stops :
             MemCall("WriteBytes", <<offset, bytes>>, k = Len(stores),
                     Copied(m_Data, stores, k), SubSeq(stores, 1, k))

NextMem == DoReadByte \/ DoReadWord \/ DoWriteByte \/ DoWriteWord \/ DoWriteBytes

\* Memory::Memory(size): m_Data.resize(size) fills it with 0; no CPU runs
InitMem ==
    /\ m_Size \in MemSizes
    /\ m_Data = [a \in {} |-> 0]
    /\ m_PC = 0 /\ m_SP = 0 /\ m_Acc = 0 /\ m_X = 0 /\ m_Y = 0 /\ m_ProcStatus = 0
    /\ m_CyclesRem = 0 /\ m_CyclesExecuted = 0
    /\ m_WasSupplied = FALSE /\ m_SuppliedValue = 0
    /\ h_op = "Init"
    /\ h_args = <<>>
    /\ h_pre = Snapshot(CpuState)
    /\ h_ret = FALSE
    /\ h_row = <<>>
    /\ h_log = <<>>
    /\ h_trace = <<>>
    /\ h_ticksLeft = 0
    /\ h_callsLeft = MemCalls
    /\ NoProgram

SpecMem == InitMem /\ [][NextMem]_vars

----------------------------------------------------------------------------
(* main.cpp, command 'E': while (cpu.Tick()) {}, entered between two calls  *)
(* of the shell with any opcode at PC (a JMP to itself among them) and with *)
(* cycles pending or not                                                    *)

\* every opcode with an operand in zero page or page 2, and JMP $0600 at 0x0600
RunPrograms ==
    {<<opcode, 5, 2>> : opcode \in 0..255} \cup {<<76, GET_LOW_BYTE(AnyPC), GET_HIGH_BYTE(AnyPC)>>}

RunStatus == {32, 239}
RunCyclesRem == {0, 1, 7, 255}

InitRun ==
    \E prog \in RunPrograms, p \in RunStatus, cr \in RunCyclesRem :
       /\ cr # 0 => (prog[1] = 234 /\ p = 32)
       /\ prog[1] = 255 => p = 32
       /\ Start([PC |-> AnyPC, SP |-> 253, A |-> 129, X |-> 1, Y |-> 255, P |-> p,
                 CR |-> cr, CE |-> 100, ws |-> FALSE, sv |-> 0,
                 mem |-> Over(Background, Bytes(AnyPC, prog)),
                 log |-> <<>>],
                RunTicks, 0)

\* the loop calls Tick again while the last Tick returned true
Running == h_op = "Init" \/ (h_op = "Tick" /\ h_ret)

DoRunTick == Running /\ DoTick

\* the loop does nothing but call Tick: the call that is due is made
\* The loop of main.cpp calls Tick again for as long as the last call returned
\* true: weak fairness of its step.  Every step of the loop is a Tick, which
\* lowers the count of ticks left, and the fairness is stated on that count.
RunDue == Running /\ h_ticksLeft > 0
\* the step of the loop as the count of ticks left sees it
RunStep == RunDue /\ h_ticksLeft' = h_ticksLeft - 1
SpecRun == InitRun /\ [][DoRunTick]_vars /\ WF_h_ticksLeft(RunStep)

----------------------------------------------------------------------------
(* Properties.  h_op names the last call, h_pre the CPU and memory it was    *)
(* made on, h_log its bus accesses in order, h_row the table row a fetching  *)
(* Tick decoded, h_ret what Tick returned, h_trace the calls and executed    *)
(* instructions so far.                                                      *)

\* the byte and the little-endian word a memory image holds at an address
Peek(mem, a) == IF a \in DOMAIN mem THEN mem[a] ELSE 0
PeekWord(mem, a) == Peek(mem, a) + (256 * Peek(mem, (a + 1) % 65536))

IsStackAccess(e) == e[1] \in {"push", "pull"}

\* C1: after Reset, from any prior state, A = X = Y = 0, SP = 0xFD, PC is the
\* little-endian word at 0xFFFC/0xFFFD and P has only bit U set; Reset writes
\* no memory.
C1_ResetState ==
    h_op = "Reset" =>
        /\ m_Acc = 0 /\ m_X = 0 /\ m_Y = 0
        /\ m_SP = 253
        /\ m_PC = PeekWord(h_pre.mem, 65532)
        /\ m_ProcStatus = 32
        /\ m_Data = h_pre.mem
        /\ \A k \in 1..Len(h_log) : h_log[k][1] = "read"

\* a Reset that changed every register: made after an instruction ran
C1_Witness ==
    /\ h_op = "Reset"
    /\ h_pre.A # 0 /\ h_pre.X # 0 /\ h_pre.Y # 0
    /\ h_pre.SP # 253 /\ h_pre.P # 32 /\ h_pre.PC # m_PC
    /\ h_pre.CR > 0

\* C2 (as stated): bit U of P is 1 in every reachable state, the constructed
\* CPU included.
C2_UnusedAlways == HasStatusFlag(m_ProcStatus, UNUSED)

\* C2 (amended): bit U of P is 1 after any call of Reset, Tick, IRQ or NMI,
\* PLP and RTI that pull a byte with bit 5 clear included; the CPU as
\* constructed has P = 0.
C2_UnusedAfterCall ==
    /\ h_op = "Init" => m_ProcStatus = 0
    /\ h_op # "Init" => HasStatusFlag(m_ProcStatus, UNUSED)

\* a PLP that pulled a byte with bit 5 clear
C2_Witness ==
    /\ h_op = "Tick"
    /\ h_row # <<>>
    /\ h_row[2] = "PLP"
    /\ \E k \in 1..Len(h_log) : h_log[k][1] = "pull" /\ ~HasStatusFlag(h_log[k][3], UNUSED)
    /\ HasStatusFlag(m_ProcStatus, UNUSED)

\* the operand bytes after the opcode a Tick fetched, read from the memory before it
OperandLow(pre) == Peek(pre.mem, (pre.PC + 1) % 65536)
OperandHigh(pre) == Peek(pre.mem, (pre.PC + 2) % 65536)

\* the indexed operand crosses a page: base and base + index differ in the high byte
PageCrossed(pre, adr) ==
    LET base == OperandLow(pre) + (256 * OperandHigh(pre))
        ptr == Peek(pre.mem, OperandLow(pre)) + (256 * Peek(pre.mem, (OperandLow(pre) + 1) % 256))
    IN CASE adr = "ABX" -> ((base + pre.X) % 65536) \div 256 # base \div 256
         [] adr = "ABY" -> ((base + pre.Y) % 65536) \div 256 # base \div 256
         [] adr = "INY" -> ((ptr + pre.Y) % 65536) \div 256 # ptr \div 256
         [] OTHER -> FALSE

BranchTaken(pre, ins) ==
    CASE ins = "BCC" -> ~HasStatusFlag(pre.P, CARRY)
      [] ins = "BCS" -> HasStatusFlag(pre.P, CARRY)
      [] ins = "BNE" -> ~HasStatusFlag(pre.P, ZERO)
      [] ins = "BEQ" -> HasStatusFlag(pre.P, ZERO)
      [] ins = "BPL" -> ~HasStatusFlag(pre.P, NEGATIVE)
      [] ins = "BMI" -> HasStatusFlag(pre.P, NEGATIVE)
      [] ins = "BVC" -> ~HasStatusFlag(pre.P, INT_OVERFLOW)
      [] ins = "BVS" -> HasStatusFlag(pre.P, INT_OVERFLOW)
      [] OTHER -> FALSE

\* +1 for a taken branch, +2 when the target is in another page than the next instruction
BranchPenalty(pre, ins) ==
    LET next == (pre.PC + 2) % 65536
        off == IF OperandLow(pre) >= 128 THEN OperandLow(pre) - 256 ELSE OperandLow(pre)
        target == (next + off + 65536) % 65536
    IN IF ~BranchTaken(pre, ins) THEN 0
       ELSE IF target \div 256 = next \div 256 THEN 1 ELSE 2

TableCycles(pre, row) ==
    RowMinCycles(row)
    + (IF RowVariableCycles(row) /\ PageCrossed(pre, RowAddressing(row)) THEN 1 ELSE 0)
    + BranchPenalty(pre, RowInstruction(row))

\* C3: for every legal opcode, after the Tick that fetches it with no cycles
\* pending, cycles_remaining is the table's base cycles, plus 1 if the row has
\* the page penalty and the indexed operand crosses a page, plus the branch
\* penalty (JMP absolute 3, STA absolute,X 5, ASL zero page 5).
C3_TableCycles ==
    (h_op = "Tick" /\ h_row # <<>> /\ h_row[1] < MAX_INSTRUCTIONS /\ h_row[2] # "ILL") =>
        m_CyclesRem = TableCycles(h_pre, InstructionDetails[h_row[1] + 1])

\* C4: a Tick entered with cycles_remaining > 0 decrements it by exactly 1 and
\* leaves PC, SP, A, X, Y, P and memory unchanged, with no bus access (no
\* opcode is fetched); a Tick touches the bus only when entered with 0.
C4_BusyTick ==
    /\ (h_op = "Tick" /\ h_pre.CR > 0) =>
          /\ m_CyclesRem = h_pre.CR - 1
          /\ m_PC = h_pre.PC /\ m_SP = h_pre.SP
          /\ m_Acc = h_pre.A /\ m_X = h_pre.X /\ m_Y = h_pre.Y
          /\ m_ProcStatus = h_pre.P
          /\ m_Data = h_pre.mem
          /\ h_log = <<>>
    /\ (h_op = "Tick" /\ h_log # <<>>) => h_pre.CR = 0

\* a busy Tick with an instruction waiting at PC and flags, registers set
C4_Witness ==
    /\ h_op = "Tick"
    /\ h_pre.CR > 1
    /\ m_CyclesRem = h_pre.CR - 1
    /\ Peek(m_Data, m_PC) # 0

C6_IrqMasked ==
    (h_op = "IRQ" /\ HasStatusFlag(h_pre.P, INTERRUPT)) =>
        /\ m_PC = h_pre.PC /\ m_SP = h_pre.SP
        /\ m_Acc = h_pre.A /\ m_X = h_pre.X /\ m_Y = h_pre.Y
        /\ m_ProcStatus = h_pre.P
        /\ m_CyclesRem = h_pre.CR
        /\ m_Data = h_pre.mem
        /\ h_log = <<>>

\* an IRQ raised while I = 1 and cycles are pending
C6_Witness ==
    /\ h_op = "IRQ"
    /\ HasStatusFlag(h_pre.P, INTERRUPT)
    /\ h_pre.CR > 0

\* the flags an interrupt entry neither sets nor clears
KeptFlags == {CARRY, ZERO, DECIMAL, INT_OVERFLOW, NEGATIVE}

\* the entry sequence of IRQ and NMI: PC high, PC low, then P with B = 0 and
\* U = 1 pushed from SP downwards, I set, PC loaded from the vector, A, X, Y kept
InterruptEntry(vector) ==
    /\ Len(h_log) >= 3
    /\ h_log[1] = <<"push", 256 + h_pre.SP, h_pre.PC \div 256>>
    /\ h_log[2] = <<"push", 256 + ((h_pre.SP + 255) % 256), h_pre.PC % 256>>
    /\ h_log[3][1] = "push"
    /\ h_log[3][2] = 256 + ((h_pre.SP + 254) % 256)
    /\ ~HasStatusFlag(h_log[3][3], BREAK)
    /\ HasStatusFlag(h_log[3][3], UNUSED)
    /\ \A f \in KeptFlags : HasStatusFlag(h_log[3][3], f) = HasStatusFlag(h_pre.P, f)
    /\ \A k \in 1..3 : Peek(m_Data, h_log[k][2]) = h_log[k][3]
    /\ \A k \in 4..Len(h_log) : h_log[k][1] = "read"
    /\ m_SP = (h_pre.SP + 253) % 256
    /\ HasStatusFlag(m_ProcStatus, INTERRUPT)
    /\ m_PC = PeekWord(h_pre.mem, vector)
    /\ m_Acc = h_pre.A /\ m_X = h_pre.X /\ m_Y = h_pre.Y

\* C7: IRQ with I = 0 pushes PC high, PC low, then P with B = 0 and U = 1 (SP
\* ends 3 lower, modulo 256), sets I, loads PC from the word at 0xFFFE and
\* increases cycles_remaining by exactly 7; A, X, Y are unchanged.
C7_IrqTaken ==
    (h_op = "IRQ" /\ ~HasStatusFlag(h_pre.P, INTERRUPT)) =>
        /\ InterruptEntry(65534)
        /\ m_CyclesRem = h_pre.CR + 7

\* C8: NMI is taken whatever I is: the same three pushes, I set, PC loaded
\* from the word at 0xFFFA and cycles_remaining increased by exactly 8.
C8_Nmi ==
    h_op = "NMI" =>
        /\ InterruptEntry(65530)
        /\ m_CyclesRem = h_pre.CR + 8

\* the stack pointer after the accesses of log made from sp on, -1 once an
\* access is not at the address the discipline gives it
RECURSIVE StackReplay(_, _)
StackReplay(log, sp) ==
    IF sp < 0 \/ log = <<>> THEN sp
    ELSE LET e == Head(log)
             up == (sp + 1) % 256
         IN CASE e[1] = "push" ->
                   StackReplay(Tail(log), IF e[2] = 256 + sp THEN (sp + 255) % 256 ELSE -1)
              [] e[1] = "pull" ->
                   StackReplay(Tail(log), IF e[2] = 256 + up THEN up ELSE -1)
              [] OTHER -> StackReplay(Tail(log), sp)

\* C9: every push writes at 0x0100 + SP and then decrements SP, every pull
\* increments SP and then reads at 0x0100 + SP (PHA, PHP, PLA, PLP, JSR, RTS,
\* BRK, RTI, IRQ, NMI); all stack accesses are in 0x0100..0x01FF, also when
\* SP wraps; right after a push the byte at 0x0100 | ((SP + 1) mod 256) is the
\* pushed byte.
C9_StackDiscipline ==
    LET stack == SelectSeq(h_log, IsStackAccess)
        last == stack[Len(stack)]
    IN stack # <<>> =>
         /\ StackReplay(h_log, h_pre.SP) = m_SP
         /\ \A k \in 1..Len(stack) : stack[k][2] \in 256..511
         /\ \A k \in 1..Len(stack) :
               stack[k][1] = "pull" => stack[k][3] = Peek(h_pre.mem, stack[k][2])
         /\ last[1] = "push" => Peek(m_Data, 256 + ((m_SP + 1) % 256)) = last[3]

\* pushes that wrap the stack pointer from 0x00 to 0xFF
C9_Witness ==
    /\ Len(SelectSeq(h_log, IsStackAccess)) >= 2
    /\ \E k \in 1..Len(h_log) : h_log[k] \in {"push"} \X {256} \X (1..255)
    /\ \E k \in 1..Len(h_log) : h_log[k][1] = "push" /\ h_log[k][2] = 511
    /\ m_SP > h_pre.SP

\* instructions that touch neither the stack nor memory
StackNeutral ==
    {"LDA", "LDX", "LDY", "TAX", "TXA", "TAY", "TYA", "NOP", "SEC", "CLC", "SED", "CLD",
     "SEI", "CLI", "CLV", "AND", "ORA", "EOR", "ADC", "SBC", "INX", "INY", "DEX", "DEY",
     "CMP", "CPX", "CPY", "BIT"}

\* the positions in h_trace of a `first` and the next `last`, with only
\* stack-neutral instructions between them
RoundTrips(first, last) ==
    {ij \in (1..Len(h_trace)) \X (1..Len(h_trace)) :
        /\ ij[1] < ij[2]
        /\ h_trace[ij[1]].op = first
        /\ h_trace[ij[2]].op = last
        /\ \A k \in (ij[1] + 1)..(ij[2] - 1) : h_trace[k].op \in StackNeutral}

\* C10: PHA, instructions that leave the stack alone, PLA restores A to its
\* value at the PHA, sets Z and N from it and brings SP back; PHP ... PLP
\* restores P with U forced to 1; LDA #$AA; PHA; LDA #$00; PLA from reset
\* ends with A = 0xAA and SP = 0xFD.
C10_RoundTrip ==
    /\ \A ij \in RoundTrips("PHA", "PLA") :
          LET push == h_trace[ij[1]]
              pull == h_trace[ij[2]]
          IN /\ pull.A1 = push.A0
             /\ pull.SP1 = push.SP0
             /\ HasStatusFlag(pull.P1, ZERO) = (push.A0 = 0)
             /\ HasStatusFlag(pull.P1, NEGATIVE) = (push.A0 >= 128)
    /\ \A ij \in RoundTrips("PHP", "PLP") :
          LET push == h_trace[ij[1]]
              pull == h_trace[ij[2]]
          IN /\ pull.P1 = (IF HasStatusFlag(push.P0, UNUSED) THEN push.P0 ELSE push.P0 + 32)
             /\ pull.SP1 = push.SP0
    /\ \A r \in 1..(Len(h_trace) - 4) :
          ( /\ h_trace[r].op = "Reset"
            /\ h_trace[r + 1].opcode = 169 /\ h_trace[r + 1].A1 = 170
            /\ h_trace[r + 2].op = "PHA"
            /\ h_trace[r + 3].opcode = 169 /\ h_trace[r + 3].A1 = 0
            /\ h_trace[r + 4].op = "PLA" )
          => (h_trace[r + 4].A1 = 170 /\ h_trace[r + 4].SP1 = 253)

\* a PHA at SP = 0x00 (the push wraps SP), A reloaded with another value, PLA
C10_Witness ==
    \E ij \in RoundTrips("PHA", "PLA") :
        /\ ij[2] > ij[1] + 1
        /\ h_trace[ij[1]].SP0 = 0
        /\ h_trace[ij[1]].A0 >= 128
        /\ h_trace[ij[2]].A0 # h_trace[ij[1]].A0
        /\ h_trace[ij[2]].A1 = h_trace[ij[1]].A0

\* C11: JSR at address a pushes the high byte, then the low byte of a + 2 and
\* sets PC to its operand word; RTS pulls low, then high and sets PC to the
\* pulled word + 1; a JSR and the next RTS, with only stack-neutral
\* instructions between them, end with PC = a + 3 and SP as before the JSR.
C11_Subroutine ==
    /\ (h_op = "Tick" /\ h_row # <<>> /\ h_row[2] = "JSR" /\ h_row[3] = "ABS") =>
          LET ret == (h_pre.PC + 2) % 65536
          IN /\ SelectSeq(h_log, IsStackAccess)
                  = << <<"push", 256 + h_pre.SP, ret \div 256>>,
                       <<"push", 256 + ((h_pre.SP + 255) % 256), ret % 256>> >>
             /\ m_PC = PeekWord(h_pre.mem, (h_pre.PC + 1) % 65536)
    /\ (h_op = "Tick" /\ h_row # <<>> /\ h_row[2] = "RTS" /\ h_row[3] = "IMP") =>
          LET pulls == SelectSeq(h_log, IsStackAccess)
          IN /\ Len(pulls) = 2
             /\ pulls[1] = <<"pull", 256 + ((h_pre.SP + 1) % 256),
                             Peek(h_pre.mem, 256 + ((h_pre.SP + 1) % 256))>>
             /\ pulls[2] = <<"pull", 256 + ((h_pre.SP + 2) % 256),
                             Peek(h_pre.mem, 256 + ((h_pre.SP + 2) % 256))>>
             /\ m_PC = (pulls[1][3] + (256 * pulls[2][3]) + 1) % 65536
    /\ \A ij \in RoundTrips("JSR", "RTS") :
          /\ h_trace[ij[2]].PC1 = (h_trace[ij[1]].PC0 + 3) % 65536
          /\ h_trace[ij[2]].SP1 = h_trace[ij[1]].SP0

\* a JSR at SP = 0x00 (its second push wraps to 0x01FF), an instruction in the
\* subroutine, and the RTS that returns behind the JSR
C11_Witness ==
    \E ij \in RoundTrips("JSR", "RTS") :
        /\ ij[2] > ij[1] + 1
        /\ h_trace[ij[1]].SP0 = 0
        /\ h_trace[ij[1]].SP1 = 254
        /\ h_trace[ij[2]].PC1 = h_trace[ij[1]].PC0 + 3

\* the address STA wrote to and the address LDA read its operand from
WrittenAddress(e) == SelectSeq(e.log, LAMBDA a : a[1] = "write")[1][2]
LoadedAddress(e) == e.log[Len(e.log)][2]

\* C12: STA addr followed by LDA addr, addr outside the bytes of the two
\* instructions, leaves A = M (the value of A before the STA), memory[addr]
\* = M, Z = (M = 0) and N = (M >= 0x80); the STA changes no flag.
C12_StoreLoad ==
    LET n == Len(h_trace)
        sta == h_trace[n - 1]
        lda == h_trace[n]
    IN ( /\ h_op = "Tick" /\ h_row # <<>> /\ h_row[2] = "LDA"
         /\ n >= 2
         /\ sta.op = "STA"
         /\ WrittenAddress(sta) = LoadedAddress(lda)
         /\ WrittenAddress(sta) \notin sta.PC0..(lda.PC1 - 1) )
       => /\ m_Acc = sta.A0
          /\ Peek(m_Data, WrittenAddress(sta)) = sta.A0
          /\ HasStatusFlag(m_ProcStatus, ZERO) = (sta.A0 = 0)
          /\ HasStatusFlag(m_ProcStatus, NEGATIVE) = (sta.A0 >= 128)
          /\ sta.P1 = (IF HasStatusFlag(sta.P0, UNUSED) THEN sta.P0 ELSE sta.P0 + 32)

\* STA $FF,X; LDA $FF,X with X = 1 and a negative A, Z set and N clear beforehand
C12_Witness ==
    LET n == Len(h_trace)
    IN /\ h_op = "Tick" /\ h_row # <<>> /\ h_row[2] = "LDA"
       /\ n >= 2
       /\ h_trace[n - 1].op = "STA"
       /\ WrittenAddress(h_trace[n - 1]) = 0
       /\ LoadedAddress(h_trace[n]) = 0
       /\ h_trace[n - 1].A0 >= 128
       /\ ~HasStatusFlag(h_trace[n - 1].P0, NEGATIVE)
       /\ m_Acc = h_trace[n - 1].A0

\* the index register a zero-page mode adds to its operand byte
ZeroPageIndex(pre, adr) ==
    CASE adr = "ZPX" -> pre.X
      [] adr = "ZPY" -> pre.Y
      [] OTHER -> 0

\* C13: with Zero Page, Zero Page,X and Zero Page,Y addressing every access
\* to the operand is at (t + index) mod 256, in 0x0000..0x00FF, for the
\* operand byte t (LDA $FF,X with X = 1 reads address 0x0000).
C13_ZeroPage ==
    ( /\ h_op = "Tick" /\ h_row # <<>>
      /\ h_row[1] < MAX_INSTRUCTIONS
      /\ h_row[3] \in {"ZPG", "ZPX", "ZPY"} )
    => /\ Len(h_log) >= 3
       /\ \A k \in 3..Len(h_log) :
             /\ h_log[k][2] \in 0..255
             /\ h_log[k][2] = (OperandLow(h_pre) + ZeroPageIndex(h_pre, h_row[3])) % 256

\* LDA $FF,X with X = 1: the operand is read at 0x0000
C13_Witness ==
    /\ h_op = "Tick" /\ h_row = <<181, "LDA", "ZPX">>
    /\ OperandLow(h_pre) = 255
    /\ h_pre.X = 1
    /\ h_log[3] = <<"read", 0, m_Acc>>
    /\ m_Acc # Peek(h_pre.mem, 256)

\* C14: Indexed Indirect (X) addressing with operand byte t reads the target's
\* low byte at zero-page address (t + X) & 0xFF and its high byte at
\* zero-page address (t + X + 1) & 0xFF.
C14_IndexedIndirect ==
    ( /\ h_op = "Tick" /\ h_row # <<>>
      /\ h_row[1] < MAX_INSTRUCTIONS
      /\ h_row[3] = "INX" )
    => /\ Len(h_log) >= 4
       /\ h_log[3][1] = "read"
       /\ h_log[3][2] = (OperandLow(h_pre) + h_pre.X) % 256
       /\ h_log[4][1] = "read"
       /\ h_log[4][2] = (OperandLow(h_pre) + h_pre.X + 1) % 256

\* C15: JMP (p) reads the target's low byte at p and its high byte at
\* p & 0xFF00 when the low byte of p is 0xFF, at p + 1 otherwise; PC becomes
\* that word (JMP ($02FF) takes the high byte from 0x0200).
C15_IndirectJump ==
    (h_op = "Tick" /\ h_row = <<108, "JMP", "IND">>) =>
        LET ptr == OperandLow(h_pre) + (256 * OperandHigh(h_pre))
            hiAddr == IF ptr % 256 = 255 THEN ptr - 255 ELSE ptr + 1
        IN /\ Len(h_log) = 5
           /\ h_log[4] = <<"read", ptr, Peek(h_pre.mem, ptr)>>
           /\ h_log[5] = <<"read", hiAddr, Peek(h_pre.mem, hiAddr)>>
           /\ m_PC = Peek(h_pre.mem, ptr) + (256 * Peek(h_pre.mem, hiAddr))

\* JMP ($02FF) where the bytes at 0x0200 and 0x0300 differ: PC takes 0x0200's
C15_Witness ==
    /\ h_op = "Tick" /\ h_row = <<108, "JMP", "IND">>
    /\ OperandLow(h_pre) = 255 /\ OperandHigh(h_pre) = 2
    /\ Peek(h_pre.mem, 512) # Peek(h_pre.mem, 768)
    /\ m_PC \div 256 = Peek(h_pre.mem, 512)
    /\ m_PC % 256 = Peek(h_pre.mem, 767)

\* the operand byte of a branch as a signed 8-bit value
SignedOffset(pre) ==
    IF OperandLow(pre) >= 128 THEN OperandLow(pre) - 256 ELSE OperandLow(pre)

\* C16: a taken branch sets PC to (PC after the operand + signed(offset)) mod
\* 65536, the operand byte sign-extended: an operand in 0x80..0xFF branches
\* backward by 256 - operand; a branch not taken leaves PC just after the
\* operand.
C16_BranchTarget ==
    ( /\ h_op = "Tick" /\ h_row # <<>>
      /\ h_row[1] < MAX_INSTRUCTIONS
      /\ h_row[3] = "REL" )
    => LET next == (h_pre.PC + 2) % 65536
       IN IF BranchTaken(h_pre, h_row[2])
          THEN m_PC = (next + SignedOffset(h_pre) + 65536) % 65536
          ELSE m_PC = next

\* C17: a branch not taken credits 2 cycles; a taken branch whose new PC has
\* the high byte of the PC after the operand credits 3; a taken branch whose
\* new PC is in another page credits 4; in every page.
C17_BranchCycles ==
    ( /\ h_op = "Tick" /\ h_row # <<>>
      /\ h_row[1] < MAX_INSTRUCTIONS
      /\ h_row[3] = "REL" )
    => LET next == (h_pre.PC + 2) % 65536
       IN m_CyclesRem =
            (IF ~BranchTaken(h_pre, h_row[2]) THEN 2
             ELSE IF m_PC \div 256 = next \div 256 THEN 3 ELSE 4)

\* the opcodes of the NMOS 6502's documented instructions
OfficialOpcodes ==
    {
     0, 1, 5, 6, 8, 9, 10, 13, 14, 16, 17, 21, 22, 24, 25, 29,
     30, 32, 33, 36, 37, 38, 40, 41, 42, 44, 45, 46, 48, 49, 53, 54,
     56, 57, 61, 62, 64, 65, 69, 70, 72, 73, 74, 76, 77, 78, 80, 81,
     85, 86, 88, 89, 93, 94, 96, 97, 101, 102, 104, 105, 106, 108, 109, 110,
     112, 113, 117, 118, 120, 121, 125, 126, 129, 132, 133, 134, 136, 138, 140, 141,
     142, 144, 145, 148, 149, 150, 152, 153, 154, 157, 160, 161, 162, 164, 165, 166,
     168, 169, 170, 172, 173, 174, 176, 177, 180, 181, 182, 184, 185, 186, 188, 189,
     190, 192, 193, 196, 197, 198, 200, 201, 202, 204, 205, 206, 208, 209, 213, 214,
     216, 217, 221, 222, 224, 225, 228, 229, 230, 232, 233, 234, 236, 237, 238, 240,
     241, 245, 246, 248, 249, 253, 254 }

\* C18: the opcode table has a row for each of the 256 opcode bytes, row i
\* describing opcode i: the row a Tick decodes exists for every fetched byte,
\* 0xFF included, and an opcode that is not official decodes to ILL.
C18_TableComplete ==
    (h_op = "Tick" /\ h_row # <<>>) =>
        /\ h_row[1] + 1 \in DOMAIN InstructionDetails
        /\ RowOpCode(InstructionDetails[h_row[1] + 1]) = h_row[1]
        /\ h_row[2] = RowInstruction(InstructionDetails[h_row[1] + 1])
        /\ h_row[3] = RowAddressing(InstructionDetails[h_row[1] + 1])
        /\ h_row[1] \notin OfficialOpcodes => h_row[2] = "ILL"

\* the standard opcode of each branch mnemonic
StandardBranches ==
    { <<16, "BPL">>, <<48, "BMI">>, <<80, "BVC">>, <<112, "BVS">>,
      <<144, "BCC">>, <<176, "BCS">>, <<208, "BNE">>, <<240, "BEQ">> }

\* the last Tick fetched a branch and took it (the operand bytes of the runs are not 0)
BranchWasTaken == m_PC # (h_pre.PC + 2) % 65536

\* C19: opcode 0x70 takes the branch exactly when V = 1 and opcode 0x50
\* exactly when V = 0; each branch mnemonic is decoded from its standard
\* opcode, and the reverse lookup (mnemonic, Relative) finds that opcode.
C19_BranchOpcodes ==
    /\ (h_op = "Tick" /\ h_row # <<>> /\ h_row[1] = 112) =>
          (BranchWasTaken <=> HasStatusFlag(h_pre.P, INT_OVERFLOW))
    /\ (h_op = "Tick" /\ h_row # <<>> /\ h_row[1] = 80) =>
          (BranchWasTaken <=> ~HasStatusFlag(h_pre.P, INT_OVERFLOW))
    /\ (h_op = "Tick" /\ h_row # <<>>) =>
          \A b \in StandardBranches :
             /\ RowInstruction(InstructionDetails[b[1] + 1]) = b[2]
             /\ RowAddressing(InstructionDetails[b[1] + 1]) = "REL"
             /\ RowOpCode(FindInstructionDetail(b[2], "REL")) = b[1]

\* the flags ADC does not write
AdcKeptFlags == {INTERRUPT, DECIMAL, BREAK, UNUSED}

\* C20: binary ADC (D = 0), for all bytes A, M and carry-in C: R = A + M + C;
\* the carry flag is bit 8 of R, V is set exactly when A and M have the same
\* sign and R's low byte the other one ((~(A ^ M) & (A ^ R)) & 0x80), Z and N
\* come from the low byte of R, and A becomes the low byte of R.
C20_BinaryAdc ==
    ( /\ h_op = "Tick" /\ h_row # <<>>
      /\ h_row[1] < MAX_INSTRUCTIONS
      /\ h_row[2] = "ADC"
      /\ ~HasStatusFlag(h_pre.P, DECIMAL) )
    => LET a == h_pre.A
           m == h_log[Len(h_log)][3]
           r == a + m + (IF HasStatusFlag(h_pre.P, CARRY) THEN 1 ELSE 0)
           low == r % 256
       IN /\ m_Acc = low
          /\ HasStatusFlag(m_ProcStatus, CARRY) = (r >= 256)
          /\ HasStatusFlag(m_ProcStatus, INT_OVERFLOW)
                = (((a >= 128) = (m >= 128)) /\ ((a >= 128) # (low >= 128)))
          /\ HasStatusFlag(m_ProcStatus, ZERO) = (low = 0)
          /\ HasStatusFlag(m_ProcStatus, NEGATIVE) = (low >= 128)
          /\ \A f \in AdcKeptFlags : HasStatusFlag(m_ProcStatus, f) = HasStatusFlag(h_pre.P, f)

\* 0x80 + 0x80 + 1 with Z and N set beforehand: A = 0x01, C and V set, Z and N cleared
C20_Witness ==
    /\ h_op = "Tick" /\ h_row = <<105, "ADC", "IMM">>
    /\ h_pre.A = 128
    /\ OperandLow(h_pre) = 128
    /\ h_pre.P = 227
    /\ m_Acc = 1
    /\ m_ProcStatus = 97

\* the instruction the last Tick executed, from a row the table holds
Ran(instr) ==
    /\ h_op = "Tick" /\ h_row # <<>>
    /\ h_row[1] < MAX_INSTRUCTIONS
    /\ h_row[2] = instr

\* the operand byte an arithmetic instruction fetched, and its carry-in
FetchedOperand == h_log[Len(h_log)][3]
CarryIn == IF HasStatusFlag(h_pre.P, CARRY) THEN 1 ELSE 0

\* C21: binary SBC (D = 0), for all bytes A, M and carry-in C: with
\* R = A + (M xor 0xFF) + C, A becomes the low byte of R, the carry flag is
\* bit 8 of R (set exactly when there was no borrow), and Z and N come from
\* the low byte of R.
C21_BinarySbc ==
    (Ran("SBC") /\ ~HasStatusFlag(h_pre.P, DECIMAL))
    => LET r == h_pre.A + (255 - FetchedOperand) + CarryIn
           low == r % 256
       IN /\ m_Acc = low
          /\ HasStatusFlag(m_ProcStatus, CARRY) = (r >= 256)
          /\ HasStatusFlag(m_ProcStatus, ZERO) = (low = 0)
          /\ HasStatusFlag(m_ProcStatus, NEGATIVE) = (low >= 128)

\* the number a two-digit BCD byte stands for, and the BCD byte of a number below 100
Dec(b) == (10 * (b \div 16)) + (b % 16)
Bcd(n) == (16 * (n \div 10)) + (n % 10)

\* C22: decimal ADC (D = 1), for all two-digit BCD bytes A and M and carry-in
\* C: A becomes the BCD byte of (dec(A) + dec(M) + C) mod 100, and the carry
\* flag is set exactly when dec(A) + dec(M) + C > 99.
C22_DecimalAdc ==
    ( /\ Ran("ADC") /\ HasStatusFlag(h_pre.P, DECIMAL)
      /\ h_pre.A \in BcdBytes /\ FetchedOperand \in BcdBytes )
    => LET sum == Dec(h_pre.A) + Dec(FetchedOperand) + CarryIn
       IN /\ m_Acc = Bcd(sum % 100)
          /\ HasStatusFlag(m_ProcStatus, CARRY) = (sum > 99)

\* C23: decimal SBC (D = 1), for all two-digit BCD bytes A and M and carry-in
\* C: A becomes the BCD byte of (dec(A) - dec(M) - (1 - C)) mod 100, and the
\* carry flag is set exactly when that difference is not negative.
C23_DecimalSbc ==
    ( /\ Ran("SBC") /\ HasStatusFlag(h_pre.P, DECIMAL)
      /\ h_pre.A \in BcdBytes /\ FetchedOperand \in BcdBytes )
    => LET diff == Dec(h_pre.A) - Dec(FetchedOperand) - (1 - CarryIn)
       IN /\ m_Acc = Bcd(diff % 100)
          /\ HasStatusFlag(m_ProcStatus, CARRY) = (diff >= 0)

\* the SBC of block k of program.asm is the instruction at address a
MathBlockAt(k, a) ==
    /\ a >= ProgramStart + 4
    /\ \A j \in 1..6 : Peek(m_Data, a - 5 + j) = MathBlocks[k].code[j]

\* C24: program.asm, ticked from the reset with the reset vector at 0x0200,
\* leaves after the SBC of each block the A and C its comment notes (0x20/0,
\* 0xFF/0, 0x29/1, 0x27/1, 0x87/0), for a block alone and for the five blocks
\* back to back; the run executes the four instructions of every block, in
\* order, before it reaches the BRK.
C24_MathProgram ==
    \A i \in DOMAIN h_trace :
       /\ \A k \in DOMAIN MathBlocks :
             (h_trace[i].op = "SBC" /\ MathBlockAt(k, h_trace[i].PC0))
             => /\ h_trace[i].A1 = MathBlocks[k].A
                /\ GetStatusFlag(h_trace[i].P1, CARRY) = MathBlocks[k].C
       /\ (h_trace[i].op = "BRK" /\ h_trace[i].PC0 >= ProgramStart)
             => LET n == (h_trace[i].PC0 - ProgramStart) \div 6
                IN /\ i = (4 * n) + 1
                   /\ \A m \in 1..n :
                         /\ h_trace[4 * m].op = "SBC"
                         /\ h_trace[4 * m].PC0 = ProgramStart + (6 * m) - 2
                         /\ \E k \in DOMAIN MathBlocks : MathBlockAt(k, h_trace[4 * m].PC0)

\* the five blocks back to back, run up to the BRK: the second SBC left
\* A = 0xFF and the fifth A = 0x87 with C = 0
C24_Witness ==
    /\ Len(h_trace) >= 21
    /\ h_trace[21].op = "BRK"
    /\ h_trace[8].op = "SBC" /\ h_trace[8].A1 = 255
    /\ h_trace[20].op = "SBC" /\ h_trace[20].A1 = 135
    /\ ~HasStatusFlag(h_trace[20].P1, CARRY)

ShiftInstructions == {"ASL", "LSR", "ROL", "ROR"}
ShiftMemoryModes == {"ZPG", "ZPX", "ABS", "ABX"}

\* the last Tick ran a shift or rotate on the accumulator / on memory
ShiftedAccumulator == \E i \in ShiftInstructions : Ran(i) /\ h_row[3] = "ACC"
ShiftedMemory == \E i \in ShiftInstructions : Ran(i) /\ h_row[3] \in ShiftMemoryModes

\* in a memory mode: the effective address (where the operand was read) and the operand
ShiftReads == SelectSeq(h_log, LAMBDA e : e[1] = "read")
ShiftAddress == ShiftReads[Len(ShiftReads)][2]
ShiftOperand == IF h_row[3] = "ACC" THEN h_pre.A ELSE ShiftReads[Len(ShiftReads)][3]

\* the byte the instruction left behind, in A or at the effective address
ShiftResult == IF h_row[3] = "ACC" THEN m_Acc ELSE Peek(m_Data, ShiftAddress)

\* C25: ASL, LSR, ROL and ROR in a memory addressing mode (zero page, zero
\* page,X, absolute, absolute,X) make one write, of the new byte, to the
\* effective address, and leave A and every other byte as they were; in
\* Accumulator addressing they change A only and write nothing to memory.
C25_ShiftWriteBack ==
    /\ ShiftedMemory =>
          LET writes == SelectSeq(h_log, LAMBDA e : e[1] = "write")
          IN /\ Len(writes) = 1
             /\ writes[1][2] = ShiftAddress
             /\ HasStatusFlag(m_ProcStatus, ZERO) = (writes[1][3] = 0)
             /\ HasStatusFlag(m_ProcStatus, NEGATIVE) = (writes[1][3] >= 128)
             /\ m_Acc = h_pre.A
             /\ \A x \in ((DOMAIN m_Data) \cup (DOMAIN h_pre.mem)) \ {ShiftAddress} :
                   Peek(m_Data, x) = Peek(h_pre.mem, x)
             /\ Peek(m_Data, ShiftAddress) = writes[1][3]
    /\ ShiftedAccumulator =>
          /\ m_Data = h_pre.mem
          /\ SelectSeq(h_log, LAMBDA e : e[1] = "write") = <<>>
          /\ HasStatusFlag(m_ProcStatus, ZERO) = (m_Acc = 0)
          /\ HasStatusFlag(m_ProcStatus, NEGATIVE) = (m_Acc >= 128)

\* C26: for every operand byte v and old carry c, ROL leaves
\* ((v << 1) & 0xFF) | c and sets C to bit 7 of v; ROR leaves
\* (v >> 1) | (c << 7) and sets C to bit 0 of v, so that after a ROR with
\* c = 1 bit 7 of the result and N are set.
C26_RotateCarry ==
    /\ (Ran("ROL") /\ h_row[3] \in ShiftMemoryModes \cup {"ACC"}) =>
          /\ ShiftResult = ((ShiftOperand * 2) % 256) + CarryIn
          /\ HasStatusFlag(m_ProcStatus, CARRY) = (ShiftOperand >= 128)
    /\ (Ran("ROR") /\ h_row[3] \in ShiftMemoryModes \cup {"ACC"}) =>
          /\ ShiftResult = (ShiftOperand \div 2) + (128 * CarryIn)
          /\ HasStatusFlag(m_ProcStatus, CARRY) = (ShiftOperand % 2 = 1)
          /\ CarryIn = 1 => (ShiftResult >= 128 /\ HasStatusFlag(m_ProcStatus, NEGATIVE))

\* C27: BRK at address a pushes the high byte of a + 2, then its low byte,
\* then P, at the stack pointer and the two bytes below it (modulo 256), so
\* SP goes down by 3; afterwards B is set, PC is the little-endian word at
\* 0xFFFE/0xFFFF, and A, X and Y are as before.
C27_Break ==
    Ran("BRK") =>
       LET ret == (h_pre.PC + 2) % 65536
       IN /\ SelectSeq(h_log, IsStackAccess)
               = << <<"push", 256 + h_pre.SP, ret \div 256>>,
                    <<"push", 256 + ((h_pre.SP + 255) % 256), ret % 256>>,
                    <<"push", 256 + ((h_pre.SP + 254) % 256), h_pre.P>> >>
          /\ m_SP = (h_pre.SP + 253) % 256
          /\ HasStatusFlag(m_ProcStatus, BREAK)
          /\ m_PC = PeekWord(h_pre.mem, ADDRESS_IRQ_VECTOR)
          /\ m_Acc = h_pre.A /\ m_X = h_pre.X /\ m_Y = h_pre.Y

\* BRK at 0x0600 with SP = 0x01: 0x06 and 0x02 go to 0x0101 and 0x0100, P to
\* 0x01FF, and PC is the IRQ handler the vector names
C27_Witness ==
    /\ Ran("BRK")
    /\ h_pre.PC = AnyPC /\ h_pre.SP = 1 /\ h_pre.A = 129 /\ h_pre.P = 239
    /\ Peek(m_Data, 257) = 6 /\ Peek(m_Data, 256) = 2 /\ Peek(m_Data, 511) = 239
    /\ m_SP = 254
    /\ m_PC = IrqHandler
    /\ m_ProcStatus = 255

\* an entry of h_trace for an opcode whose table row is ILL
IsIllegal(e) == e.op = "ILL" /\ e.opcode >= 0 /\ e.opcode < MAX_INSTRUCTIONS

\* C28: a Tick that fetches an opcode whose table row is ILL credits no
\* cycles (cycles_remaining stays 0 and Tick returns false), moves PC on by
\* exactly 1, forces U, and leaves A, X, Y, SP, the other flags and memory as
\* they were; the next Tick is a fetch, of the byte after the illegal opcode.
C28_IllegalOpcode ==
    /\ Ran("ILL") =>
          /\ m_CyclesRem = 0
          /\ h_ret = FALSE
          /\ m_PC = (h_pre.PC + 1) % 65536
          /\ m_Acc = h_pre.A /\ m_X = h_pre.X /\ m_Y = h_pre.Y /\ m_SP = h_pre.SP
          /\ m_ProcStatus = SetStatusFlag(h_pre.P, UNUSED, TRUE)
          /\ m_Data = h_pre.mem
    /\ (h_op = "Tick" /\ h_row = <<>> /\ h_trace # <<>>) => ~IsIllegal(h_trace[Len(h_trace)])
    /\ \A i \in 1..(Len(h_trace) - 1) :
          (IsIllegal(h_trace[i]) /\ h_trace[i + 1].opcode >= 0)
          => /\ h_trace[i + 1].PC0 = (h_trace[i].PC0 + 1) % 65536
             /\ h_trace[i + 1].log[1]
                   = <<"read", h_trace[i + 1].PC0, h_trace[i + 1].opcode>>

\* the illegal opcode 0x02 at 0x0600 with A = 0x81 and every flag but B set,
\* then the Tick that fetches the 0x05 behind it
C28_Witness ==
    /\ Len(h_trace) = 2
    /\ IsIllegal(h_trace[1]) /\ h_trace[1].opcode = 2
    /\ h_trace[1].PC0 = AnyPC /\ h_trace[1].A0 = 129 /\ h_trace[1].P0 = 239
    /\ h_trace[1].P1 = 239 /\ h_trace[1].PC1 = AnyPC + 1
    /\ h_trace[2].opcode = 5 /\ h_trace[2].PC0 = AnyPC + 1

\* the last call was Memory::op; its arguments, and the size and bytes it found
MemoryCall(op) == h_op = op
MemAddr == h_args[1]
OldByte(a) == IF a < m_Size THEN Peek(h_pre.mem, a) ELSE 0

\* m_Data is as before but for the bytes the function news gives (address -> byte)
OnlyChanged(news) ==
    \A x \in (DOMAIN m_Data) \cup (DOMAIN h_pre.mem) \cup (DOMAIN news) :
       Peek(m_Data, x) = IF x \in DOMAIN news THEN news[x] ELSE Peek(h_pre.mem, x)

\* no byte at or beyond the size is held or was accessed
WithinSize ==
    /\ \A x \in DOMAIN m_Data : x < m_Size
    /\ \A i \in DOMAIN h_log : h_log[i][2] < m_Size

\* C29: a Memory of size S accesses no byte outside [0, S) and does not wrap:
\* ReadByte(a) returns the byte at a, 0 if a >= S; WriteByte(a) writes the
\* byte at a and nothing if a >= S; WriteWord(a, w) writes the low byte at a
\* and the high byte at a + 1, each only if below S; ReadWord(a) returns the
\* low byte from a and the high byte from a + 1, 0 for a byte at or beyond S,
\* so that ReadWord(0xFFFF) takes no byte from address 0x0000.
C29_MemoryBounds ==
    /\ MemoryCall("ReadByte") =>
          /\ h_ret = OldByte(MemAddr)
          /\ OnlyChanged(<<>>) /\ WithinSize
    /\ MemoryCall("WriteByte") =>
          /\ OnlyChanged(IF MemAddr < m_Size THEN (MemAddr :> h_args[2]) ELSE <<>>)
          /\ WithinSize
    /\ MemoryCall("WriteWord") =>
          /\ OnlyChanged([x \in {a \in {MemAddr, MemAddr + 1} : a < m_Size}
                            |-> IF x = MemAddr THEN h_args[2] % 256 ELSE h_args[2] \div 256])
          /\ WithinSize
    /\ MemoryCall("ReadWord") =>
          /\ h_ret = OldByte(MemAddr) + (256 * OldByte(MemAddr + 1))
          /\ OnlyChanged(<<>>) /\ WithinSize

\* C30: WriteBytes(a, buf) on a Memory of size S copies buf[i] to a + i for
\* exactly the i with a + i < S, in one run to its end, and changes no other
\* byte: no store goes to an address at or beyond S, whatever the offset a.
C30_WriteBytes ==
    MemoryCall("WriteBytes") =>
       LET buf == h_args[2]
           inside == {i \in DOMAIN buf : MemAddr + i - 1 < m_Size}
       IN /\ h_ret = TRUE
          /\ h_log = [i \in 1..Cardinality(inside) |-> <<"copy", MemAddr + i - 1, buf[i]>>]
          /\ OnlyChanged([x \in {MemAddr + i - 1 : i \in inside} |-> buf[x - MemAddr + 1]])
          /\ WithinSize

\* the loop `while (cpu.Tick()) {}` has ended: the last Tick returned false
RunEnded ==
    /\ h_op = "Tick" /\ ~h_ret
    /\ h_ticksLeft > 0
    /\ m_CyclesRem = 0
    /\ Len(h_trace) <= 1

ReturnsFrom(q, r) ==
    /\ q.op = "IRQ" /\ ~HasStatusFlag(q.P0, INTERRUPT)
    /\ r.op = "RTI" /\ r.opcode = 64
    /\ r.SP1 = q.SP0

\* C35: after an accepted IRQ and the RTI that ends its handler with the
\* stack balanced, PC is the PC at the time of the IRQ and P is the status
\* from before the interrupt (with U = 1 and B = 0): I is 0 again, so that a
\* further IRQ is accepted.
C35_InterruptReturn ==
    \A i \in 1..Len(h_trace), j \in 1..Len(h_trace) :
       (i < j /\ ReturnsFrom(h_trace[i], h_trace[j]))
          => /\ h_trace[j].PC1 = h_trace[i].PC0
             /\ h_trace[j].P1 = SetStatusFlag(SetStatusFlag(h_trace[i].P0, UNUSED, TRUE), BREAK, FALSE)
             /\ ~HasStatusFlag(h_trace[j].P1, INTERRUPT)
             /\ (j < Len(h_trace) /\ h_trace[j + 1].op = "IRQ")
                   => h_trace[j + 1].SP1 = ToByte(h_trace[j + 1].SP0 - 3)

\* C36: after Reset() no cycles are pending, whatever the state before it, and
\* the very next Tick fetches the opcode at the address the reset vector holds.
C36_ResetThenFetch ==
    /\ h_op = "Reset" => m_CyclesRem = 0
    /\ (h_op = "Tick" /\ Len(h_trace) > 0) => h_trace[Len(h_trace)].op # "Reset"
    /\ \A i \in 1..(Len(h_trace) - 1) :
          (h_trace[i].op = "Reset" /\ h_trace[i + 1].opcode >= 0)
             => h_trace[i + 1].PC0 = PeekWord(m_Data, ADDRESS_RESET_VECTOR)

\* C37: with no Reset, IRQ or NMI in between, the number of Tick calls from
\* the Tick that fetches an instruction (inclusive) to the Tick that fetches
\* the next one (exclusive) equals the cycles credited for the first: an
\* instruction credited n cycles occupies exactly n ticks.
C37_TickBudget ==
    \A i \in 1..(Len(h_trace) - 1) :
       (h_trace[i].opcode >= 0 /\ h_trace[i + 1].opcode >= 0)
          => h_trace[i + 1].CE1 - h_trace[i].CE1 = h_trace[i].CR1

\* the encoded length that goes with an addressing mode
ModeLength(addressing) ==
    CASE addressing \in {"IMP", "ACC", "ILL"} -> 1
      [] addressing \in {"IMM", "ZPG", "ZPX", "ZPY", "INX", "INY", "REL"} -> 2
      [] addressing \in {"ABS", "ABX", "ABY", "IND"} -> 3

\* the instructions that load PC themselves
Transfers == {"JMP", "JSR", "RTS", "RTI", "BRK"}

\* the last Tick executed an opcode of the table that is neither a transfer
\* nor a taken branch
RanInLine ==
    /\ h_op = "Tick" /\ h_row # <<>>
    /\ h_row[1] < MAX_INSTRUCTIONS
    /\ h_row[2] \notin Transfers
    /\ ~BranchTaken(h_pre, h_row[2])

\* C38: every opcode that is not a taken branch, JMP, JSR, RTS, RTI or BRK
\* advances PC by the bytesUsed of its table row, which is 1 for Implied,
\* Accumulator and ILL rows, 2 for Immediate, zero-page, (zp,X), (zp),Y and
\* Relative rows and 3 for Absolute and Indirect rows.
C38_DecodeSync ==
    RanInLine
       => /\ m_PC = ToWord(h_pre.PC + RowBytesUsed(InstructionDetails[h_row[1] + 1]))
          /\ RowBytesUsed(InstructionDetails[h_row[1] + 1]) = ModeLength(h_row[3])

\* BNE with Z = 1 has run: the branch is not taken and PC is past its two bytes
C38_Witness ==
    /\ RanInLine
    /\ h_row[2] = "BNE" /\ h_row[3] = "REL"
    /\ HasStatusFlag(h_pre.P, ZERO)
    /\ m_PC = h_pre.PC + 2

----------------------------------------------------------------------------
(* cpu.cpp, Program::CompileString: the assembler.  Strings are TLA+        *)
(* strings, positions in them count from 1, and 0 stands for                *)
(* std::string::npos.                                                       *)

\* the least number of a set
Least(S) == CHOOSE x \in S : \A y \in S : x <= y
Greatest(S) == CHOOSE x \in S : \A y \in S : x >= y

\* str.at(i - 1)
CharAt(str, i) == IF i < 1 \/ i > Len(str) THEN "" ELSE SubSeq(str, i, i)

\* str.find(search, from - 1) + 1
Find(str, search, from) ==
    LET hits == {i \in from..(Len(str) - Len(search) + 1) :
                    SubSeq(str, i, i + Len(search) - 1) = search}
    IN IF hits = {} THEN 0 ELSE Least(hits)

Whitespace == {" ", "\t"}

TrimSpace(str) ==
    LET kept == {i \in 1..Len(str) : CharAt(str, i) \notin Whitespace}
    IN IF kept = {} THEN "" ELSE SubSeq(str, Least(kept), Greatest(kept))

\* the loop of ReplaceAll; ind counts from 0 as in the source, and length is
\* the length of the string before any replacement
RECURSIVE ReplaceLoop(_, _, _, _, _)
ReplaceLoop(ret, ind, length, search, repl) ==
    IF ind >= length THEN ret
    ELSE LET at == Find(ret, search, ind + 1)
         IN IF at = 0 THEN ret
            ELSE ReplaceLoop(SubSeq(ret, 1, at - 1) \o repl \o SubSeq(ret, at + Len(search), Len(ret)),
                             (at - 1) + Len(repl), length, search, repl)

ReplaceAll(str, search, repl) == ReplaceLoop(str, 0, Len(str), search, repl)

DecimalDigits == "0123456789"
HexDigits == "0123456789ABCDEF"
LowerCase == "abcdefghijklmnopqrstuvwxyz"
UpperCase == "ABCDEFGHIJKLMNOPQRSTUVWXYZ"

\* std::toupper
ToUpper(ch) ==
    LET i == Find(LowerCase, ch, 1)
    IN IF i = 0 THEN ch ELSE CharAt(UpperCase, i)

\* std::to_string of a word
RECURSIVE to_string(_)
to_string(val) ==
    IF val < 10 THEN CharAt(DecimalDigits, val + 1)
    ELSE to_string(val \div 10) \o CharAt(DecimalDigits, (val % 10) + 1)

\* the value of a digit in a base, -1 for any other character
DigitValue(ch, base) ==
    LET i == IF ch = "" THEN 0 ELSE Find(HexDigits, ToUpper(ch), 1)
    IN IF i = 0 \/ i > base THEN -1 ELSE i - 1

\* the digits of str from position i on, as a word, and where they end
RECURSIVE Digits(_, _, _, _)
Digits(str, i, base, acc) ==
    IF DigitValue(CharAt(str, i), base) < 0 THEN [value |-> acc, end |-> i]
    ELSE Digits(str, i + 1, base, ToWord((acc * base) + DigitValue(CharAt(str, i), base)))

\* the characters the sources are written with, in the order of their codes
Ascii == "\t\n !#$%()*+,-./0123456789:;<=>?@ABCDEFGHIJKLMNOPQRSTUVWXYZ_abcdefghijklmnopqrstuvwxyz"

\* std::string's operator <, the order std::map keeps its keys in
RECURSIVE StringLess(_, _)
StringLess(a, b) ==
    IF b = "" THEN FALSE
    ELSE IF a = "" THEN TRUE
    ELSE IF CharAt(a, 1) = CharAt(b, 1) THEN StringLess(Tail(a), Tail(b))
    ELSE Find(Ascii, CharAt(a, 1), 1) < Find(Ascii, CharAt(b, 1), 1)

\* the digits without their leading zeros
RECURSIVE Significant(_)
Significant(digits) ==
    IF Len(digits) > 1 /\ CharAt(digits, 1) = "0" THEN Significant(Tail(digits)) ELSE digits

\* the digits of the greatest unsigned long (64 bits) in a base
GreatestDigits(base) ==
    CASE base = 2 -> "1111111111111111111111111111111111111111111111111111111111111111"
      [] base = 10 -> "18446744073709551615"
      [] base = 16 -> "FFFFFFFFFFFFFFFF"

\* where the leading white space of str ends
SkipSpace(str) ==
    LET blank == {i \in 1..Len(str) : CharAt(str, i) \notin (Whitespace \cup {"\n"})}
    IN IF blank = {} THEN Len(str) + 1 ELSE Least(blank)

\* past a sign
SkipSign(str, first) == IF CharAt(str, first) \in {"+", "-"} THEN first + 1 ELSE first

\* past the 0X of a base 16 number
SkipPrefix(str, base, body) ==
    IF /\ base = 16
       /\ CharAt(str, body) = "0" /\ ToUpper(CharAt(str, body + 1)) = "X"
       /\ DigitValue(CharAt(str, body + 2), base) >= 0
    THEN body + 2 ELSE body

\* the outcome of std::stoul on the digits read; significant is empty when
\* there was no digit
StoulOf(negative, digits, significant, greatest) ==
    IF significant = "" THEN [thrown |-> "invalid_argument", value |-> 0]
    ELSE IF \/ Len(significant) > Len(greatest)
            \/ Len(significant) = Len(greatest) /\ StringLess(greatest, significant)
         THEN [thrown |-> "out_of_range", value |-> 0]
    ELSE [thrown |-> "",
          value |-> IF negative THEN ToWord(WordMod - digits.value) ELSE digits.value]

StoulDigits(str, base, first, start, digits) ==
    StoulOf(CharAt(str, first) = "-", digits,
            Significant(SubSeq(str, start, digits.end - 1)), GreatestDigits(base))

StoulFrom(str, base, first, start) ==
    StoulDigits(str, base, first, start, Digits(str, start, base, 0))

StoulAfter(str, base, first) ==
    StoulFrom(str, base, first, SkipPrefix(str, base, SkipSign(str, first)))

\* static_cast<word>(std::stoul(str, nullptr, base)): leading white space, a
\* sign, for base 16 a 0X prefix, then digits up to the first character that
\* is none; std::invalid_argument when there is no digit, std::out_of_range
\* when the number does not fit an unsigned long.  The value is computed
\* modulo 2^16, which is what the cast keeps of it.
Stoul(str, base) == StoulAfter(str, base, SkipSpace(str))

\* symbols.emplace(key, val): a key the map holds keeps its value
Emplace(map, key, val) ==
    IF key \in DOMAIN map THEN map
    ELSE [k \in (DOMAIN map) \cup {key} |-> IF k = key THEN val ELSE map[k]]

RECURSIVE ReplaceKeys(_, _, _)
ReplaceKeys(str, keys, map) ==
    IF keys = {} THEN str
    ELSE LET key == CHOOSE k \in keys : \A o \in keys \ {k} : StringLess(k, o)
         IN ReplaceKeys(ReplaceAll(str, key, to_string(map[key])), keys \ {key}, map)

replaceSymbols(map, str) == ReplaceKeys(str, DOMAIN map, map)

\* catch (std::invalid_argument) { return 0; }
CatchInvalidArgument(decimal) ==
    IF decimal.thrown = "invalid_argument" THEN [thrown |-> "", value |-> 0] ELSE decimal

\* parseValue after replaceSymbols, on ret
parseValueOf(pc, ret) ==
    IF ret = "" THEN [thrown |-> "out_of_range", value |-> 0]
    ELSE IF CharAt(ret, 1) = "$" THEN Stoul(SubSeq(ret, 2, Len(ret)), 16)
    ELSE IF CharAt(ret, 1) = "%" THEN Stoul(SubSeq(ret, 2, Len(ret)), 2)
    ELSE IF ret = "*" THEN [thrown |-> "", value |-> pc]
    ELSE CatchInvalidArgument(Stoul(ret, 10))

\* parseValue with the symbols and the location counter it captures; ret.at(0)
\* throws std::out_of_range on an empty string, and only the decimal branch
\* catches std::invalid_argument
parseValue(map, pc, str) == parseValueOf(pc, replaceSymbols(map, str))

MnmuemonicToInstruction(str) ==
    IF Len(str) = 3 /\ str \in Instructions THEN str ELSE "ILL"

\* the locals of CompileString and the members of Program it writes
AsmState ==
    [lineNumber |-> lineNumber, pcOffset |-> pcOffset, tempStr |-> tempStr,
     symbol |-> symbol, instruction |-> instruction, setStartingPC |-> setStartingPC,
     symbols |-> symbols, mode |-> mode, m_SourceCode |-> m_SourceCode,
     m_ByteCode |-> m_ByteCode, m_StartingPCOffset |-> m_StartingPCOffset,
     h_parsed |-> h_parsed, thrown |-> ""]

handleToken(a, token) ==
    LET a1 == IF a.symbol # ""
              THEN [a EXCEPT !.symbols = Emplace(@, a.symbol, a.pcOffset), !.symbol = ""]
              ELSE a
        inst == MnmuemonicToInstruction(token)
    IN IF inst # "ILL"
       THEN [a1 EXCEPT !.mode = "INSTRUCTION", !.instruction = inst]
       ELSE [a1 EXCEPT !.mode = "SYMBOL", !.symbol = token]

\* zero page or absolute, and the operand bytes the location counter is
\* stepped by, with the low byte deciding
NarrowestByLowByte(value, zeroPage, absolute) ==
    IF GET_LOW_BYTE(value) # 0
    THEN [addressing |-> absolute, step |-> 2]
    ELSE [addressing |-> zeroPage, step |-> 1]

\* zero page or absolute, and the operand bytes the location counter is stepped by
Narrowest(value, zeroPage, absolute) ==
    IF GET_HIGH_BYTE(value) # 0
    THEN [addressing |-> absolute, step |-> 2]
    ELSE [addressing |-> zeroPage, step |-> 1]

\* what parseInstruction holds after the operand: addressing, value, and the
\* step of the location counter past the operand
Parsed(addressing, v, step) ==
    [addressing |-> addressing, value |-> v.value, step |-> step, thrown |-> v.thrown]

\* the zero page or absolute form chosen for a plain operand
ParsedDirect(v, direct) == Parsed(direct.addressing, v, direct.step)

\* the addressing mode and the value parseInstruction reads from the operand
\* text, and the step of the location counter past the operand; pc is
\* pcOffset, already past the opcode
ParseOperand(map, pc, addrStr) ==
    LET ltr == CharAt(addrStr, 1)
        rest == SubSeq(addrStr, 2, Len(addrStr))
        none == [thrown |-> "", value |-> 0]
        Immediate(v) == Parsed("IMM", v, IF GET_HIGH_BYTE(v.value) > 0 THEN 2 ELSE 1)
        Relative(v) == Parsed("REL", [v EXCEPT !.value = GET_LOW_BYTE(@)], 1)
        ltrComIn == Find(addrStr, ",", 2)
        ltrPar == Find(addrStr, ")", 2)
        ltrCom == Find(addrStr, ",", 1)
        Indirect(v) == IF ltrComIn # 0
                       THEN Parsed(IF ltrComIn < ltrPar THEN "INX" ELSE "INY", v, 1)
                       ELSE Parsed("IND", v, 2)
        isX == CharAt(addrStr, Len(addrStr)) = "X"
        Direct(v) == ParsedDirect(v, IF ltrCom = 0 THEN Narrowest(v.value, "ZPG", "ABS")
                                     ELSE IF isX THEN Narrowest(v.value, "ZPX", "ABX")
                                     ELSE Narrowest(v.value, "ZPY", "ABY"))
    IN IF addrStr = "" THEN Parsed("IMP", none, 0)
       ELSE IF addrStr = "A" THEN Parsed("ACC", none, 0)
       ELSE IF ltr = "#" THEN Immediate(parseValue(map, pc, rest))
       ELSE IF ltr \in {"*", "+", "-"}
            THEN Relative(parseValue(map, pc, IF ltr = "*" THEN rest ELSE addrStr))
       ELSE IF ltr = "("
            THEN IF ltrPar = 0 THEN Parsed("ILL", none, 0)
                 ELSE Indirect(parseValue(map, pc,
                                          SubSeq(addrStr, 2, (IF ltrComIn # 0 /\ ltrComIn < ltrPar
                                                              THEN ltrComIn ELSE ltrPar) - 1)))
       ELSE Direct(parseValue(map, pc, IF ltrCom = 0 THEN addrStr
                                       ELSE SubSeq(addrStr, 1, ltrCom - 1)))

\* word startingPCOffset = 0x0200, which CompileString never assigns again
startingPCOffset == 512

BranchInstructions == {"BCC", "BCS", "BEQ", "BMI", "BNE", "BPL", "BVC", "BVS"}

\* the "branching optimization": addressing and value after it
BranchRewrite(inst, instrPC, parsed) ==
    LET diff == startingPCOffset - instrPC
        rel == IF diff < 0 THEN BitAnd(256 + diff, 255) ELSE BitAnd(diff, 127)
    IN IF inst \in BranchInstructions /\ diff >= -126 /\ diff <= 129
       THEN [addressing |-> "REL", value |-> ToWord((rel - 2) + WordMod)]
       ELSE [addressing |-> parsed.addressing, value |-> parsed.value]

\* the bytes parseInstruction appends to m_ByteCode for a row of the table
ByteCodeOf(row, value) ==
    IF RowInstruction(row) = "ILL" THEN <<>>
    ELSE <<RowOpCode(row)>>
         \o (IF RowAddressing(row) \in {"IMP", "ACC"} THEN <<>>
             ELSE <<GET_LOW_BYTE(value)>>
                  \o (IF GET_HIGH_BYTE(value) # 0 THEN <<GET_HIGH_BYTE(value)>> ELSE <<>>))

\* the end of parseInstruction: the listing line and the byte code of the row
\* found, on a1, the state past the opcode
EmitInstruction(a, a1, addrStr, parsed, final, instrDetail, bytes) ==
    IF parsed.thrown # "" THEN [a1 EXCEPT !.thrown = parsed.thrown]
    ELSE [a1 EXCEPT
            !.pcOffset = ToWord(@ + parsed.step),
            !.m_SourceCode =
                IF RowInstruction(instrDetail) # "ILL"
                THEN Append(@, [lineNumber |-> a.lineNumber, pc |-> a.pcOffset,
                                opCode |-> RowOpCode(instrDetail),
                                instruction |-> RowInstruction(instrDetail),
                                addressing |-> RowAddressing(instrDetail),
                                value |-> final.value])
                ELSE @,
            !.m_ByteCode = @ \o bytes,
            !.setStartingPC = @ \/ RowInstruction(instrDetail) # "ILL",
            !.h_parsed = Append(@, [instruction |-> a.instruction, operand |-> addrStr,
                                    instrPC |-> a.pcOffset,
                                    parsed |-> parsed.addressing, target |-> parsed.value,
                                    addressing |-> final.addressing, value |-> final.value,
                                    before |-> Len(a.m_ByteCode), bytes |-> bytes,
                                    start |-> a1.m_StartingPCOffset])]

\* the byte code section
EncodeInstruction(a, a1, addrStr, parsed, final, instrDetail) ==
    EmitInstruction(a, a1, addrStr, parsed, final, instrDetail,
                    ByteCodeOf(instrDetail, final.value))

\* FindInstructionDetail on the instruction and the addressing settled
FindInstruction(a, a1, addrStr, parsed, final) ==
    EncodeInstruction(a, a1, addrStr, parsed, final,
                      FindInstructionDetail(a.instruction, final.addressing))

\* the branching optimization
RewriteInstruction(a, a1, addrStr, parsed) ==
    FindInstruction(a, a1, addrStr, parsed, BranchRewrite(a.instruction, a.pcOffset, parsed))

\* the operand parse, with pcOffset past the opcode
ParseInstructionOperand(a, a1, addrStr) ==
    RewriteInstruction(a, a1, addrStr, ParseOperand(a.symbols, a1.pcOffset, addrStr))

\* parseInstruction(str): the starting offset is taken until a line is emitted, the
\* opcode is stepped over, then the operand text is trimmed and its symbols
\* replaced
parseInstruction(a, str) ==
    ParseInstructionOperand(
        a,
        [a EXCEPT !.m_StartingPCOffset = IF ~a.setStartingPC THEN a.pcOffset ELSE @,
                  !.pcOffset = ToWord(@ + 1)],
        replaceSymbols(a.symbols, TrimSpace(str)))

\* completeOp in mode ASSIGNMENT, on the value parsed
CompleteAssignment(a, assigned) ==
    IF assigned.thrown # "" THEN [a EXCEPT !.thrown = assigned.thrown]
    ELSE IF a.symbol = "*" THEN [a EXCEPT !.pcOffset = assigned.value, !.symbol = ""]
    ELSE [a EXCEPT !.symbols = Emplace(@, a.symbol, assigned.value), !.symbol = ""]

\* completeOp in mode IDLE, after handleToken
CompleteToken(token) ==
    IF token.mode = "INSTRUCTION" THEN parseInstruction(token, "") ELSE token

completeOp(a) ==
    CASE a.mode = "ASSIGNMENT" ->
           CompleteAssignment(a, parseValue(a.symbols, a.pcOffset, TrimSpace(a.tempStr)))
      [] a.mode = "INSTRUCTION" ->
           parseInstruction([a EXCEPT !.tempStr = replaceSymbols(a.symbols, @)],
                            replaceSymbols(a.symbols, a.tempStr))
      [] a.mode = "SYMBOL" ->
           [a EXCEPT !.symbols = Emplace(@, a.symbol, a.pcOffset), !.symbol = ""]
      [] OTHER ->
           IF a.tempStr = "" THEN a ELSE CompleteToken(handleToken(a, a.tempStr))

\* the end of a line: count it and reset the states
NewLine(a) ==
    [a EXCEPT !.lineNumber = @ + 1, !.mode = "IDLE", !.tempStr = "", !.symbol = "",
              !.instruction = "ILL"]

\* the end of a line that is no comment, after completeOp
CompleteLine(done) ==
    IF done.thrown # "" THEN done
    ELSE NewLine(IF done.mode = "SYMBOL"
                 THEN [done EXCEPT !.symbols = Emplace(@, done.symbol, done.pcOffset)]
                 ELSE done)

\* the end of a line: tempStr.at(0) throws std::out_of_range when the comment
\* before it is empty
EndOfLine(a) ==
    IF a.mode = "COMMENT"
    THEN IF a.tempStr = "" THEN [a EXCEPT !.thrown = "out_of_range"] ELSE NewLine(a)
    ELSE CompleteLine(completeOp(a))

\* a semicolon: after completeOp the comment begins
BeginComment(done) ==
    IF done.thrown # "" THEN done ELSE [done EXCEPT !.mode = "COMMENT", !.tempStr = ""]

\* one turn of the tokenizer loop, on the character c
Tokenize(a, c) ==
    IF c = "\r" THEN a
    ELSE IF c = "\n" THEN EndOfLine(a)
    ELSE IF a.mode = "COMMENT" THEN [a EXCEPT !.tempStr = @ \o c]
    ELSE IF c = ";" THEN BeginComment(completeOp(a))
    ELSE IF a.mode \in {"ASSIGNMENT", "INSTRUCTION"} THEN [a EXCEPT !.tempStr = @ \o ToUpper(c)]
    ELSE IF c \in Whitespace
         THEN [(IF a.tempStr # "" THEN handleToken(a, a.tempStr) ELSE a) EXCEPT !.tempStr = ""]
    ELSE IF c = "="
         THEN [a EXCEPT !.symbol = IF a.tempStr # "" THEN a.tempStr ELSE @,
                        !.mode = "ASSIGNMENT", !.tempStr = ""]
    ELSE IF c = ":"
         THEN [a EXCEPT !.symbols = Emplace(@, a.tempStr, a.pcOffset),
                        !.mode = "IDLE", !.tempStr = ""]
    ELSE [a EXCEPT !.tempStr = @ \o ToUpper(c)]

\* the state a step leaves; h_outcome records an exception thrown, or what
\* the step returned
AsmCommit(a, returned) ==
    /\ lineNumber' = a.lineNumber
    /\ pcOffset' = a.pcOffset
    /\ tempStr' = a.tempStr
    /\ symbol' = a.symbol
    /\ instruction' = a.instruction
    /\ setStartingPC' = a.setStartingPC
    /\ symbols' = a.symbols
    /\ mode' = a.mode
    /\ m_SourceCode' = a.m_SourceCode
    /\ m_ByteCode' = a.m_ByteCode
    /\ m_StartingPCOffset' = a.m_StartingPCOffset
    /\ h_parsed' = a.h_parsed
    /\ h_outcome' = IF a.thrown # "" THEN a.thrown ELSE returned
    /\ UNCHANGED source
    /\ UNCHANGED cpuVars

\* one turn of `for (const char& c : source)`
DoTokenize ==
    /\ h_outcome = ""
    /\ position <= Len(source)
    /\ AsmCommit(Tokenize(AsmState, CharAt(source, position)), "")
    /\ position' = position + 1

\* after the loop: the last completeOp and `return true`
DoReturn ==
    /\ h_outcome = ""
    /\ position > Len(source)
    /\ AsmCommit(IF tempStr # "" \/ symbol # "" THEN completeOp(AsmState) ELSE AsmState, "true")
    /\ UNCHANGED position

NextAsm == DoTokenize \/ DoReturn

\* the instruction lines the sources are made of: a mnemonic and an operand
AsmMnemonics == {"LDA", "LDX", "ASL", "JMP", "BNE", "BVS"}
AsmOperands ==
    {"", "A", "#$10", "#$1234", "*+5", "($10,X)", "($10),Y", "($0010)", "($1234)",
     "$10", "$FF", "$0100", "$0201", "255", "256", "$10,X", "$1234,X", "$10,Y", "$1234,Y"}
\* what comes before the instruction line: nothing, one or two instructions of
\* one byte, or the origin directive
AsmPrefixes == {"", "NOP\n", "NOP\nNOP\n", "* = $0300\n"}

AsmSources ==
    {prefix \o mnemonic \o " " \o operand \o "\nNOP\n" :
        prefix \in AsmPrefixes, mnemonic \in AsmMnemonics, operand \in AsmOperands}
    \cup
    { "; This test program performs a few\n;\n*=$0200\n\nSTART:\n\tCLD\n",  \* as program.asm begins
      ";\n",
      "NOP ; no operation\nNOP ;\nNOP\n",
      "; text\r\n\tlda $10,x\r\n",
      "NOP\nBNE $0201\nEND: NOP\n",
      "*=$0200\nV = $10\n LDA V\n LDA #\n",
      "CLC" }

\* CompileString(source) entered on a Program just constructed
InitAsm ==
    /\ source \in AsmSources
    /\ position = 1 /\ lineNumber = 1
    /\ pcOffset = startingPCOffset
    /\ tempStr = "" /\ symbol = "" /\ instruction = "ILL"
    /\ setStartingPC = FALSE
    /\ symbols = [key \in {} |-> 0]
    /\ mode = "IDLE"
    /\ m_SourceCode = <<>> /\ m_ByteCode = <<>>
    /\ m_StartingPCOffset = DefaultPCOffset
    /\ h_parsed = <<>> /\ h_outcome = ""
    /\ m_Size = 65536
    /\ m_Data = [a \in {} |-> 0]
    /\ m_PC = 0 /\ m_SP = 0 /\ m_Acc = 0 /\ m_X = 0 /\ m_Y = 0 /\ m_ProcStatus = 0
    /\ m_CyclesRem = 0 /\ m_CyclesExecuted = 0
    /\ m_WasSupplied = FALSE /\ m_SuppliedValue = 0
    /\ h_op = "Init"
    /\ h_args = <<>>
    /\ h_pre = Snapshot(CpuState)
    /\ h_ret = FALSE
    /\ h_row = <<>>
    /\ h_log = <<>>
    /\ h_trace = <<>>
    /\ h_ticksLeft = 0
    /\ h_callsLeft = 0

SpecAsm == InitAsm /\ [][NextAsm]_vars

\* C40: CompileString completes normally for every source text, a line that
\* is `;` alone included: no exception leaves it, and it returns true.
C40_CompilesEverySource == h_outcome \in {"", "true"}

\* the operand text is a plain expression: not empty, not `A`, not immediate,
\* relative or parenthesised
PlainOperand(operand) ==
    /\ operand \notin {"", "A"}
    /\ CharAt(operand, 1) \notin {"#", "*", "+", "-", "("}

\* the index suffix of a plain operand: "X", "Y", or "" when it has none
IndexSuffix(operand) ==
    IF Find(operand, ",", 1) = 0 THEN "" ELSE CharAt(operand, Len(operand))

\* the narrowest mode that fits a value with an index suffix
NarrowestMode(value, suffix) ==
    CASE suffix = "" -> IF value < 256 THEN "ZPG" ELSE "ABS"
      [] suffix = "X" -> IF value < 256 THEN "ZPX" ELSE "ABX"
      [] suffix = "Y" -> IF value < 256 THEN "ZPY" ELSE "ABY"

\* C31: for a plain operand the assembler chooses Zero Page (Zero Page,X or
\* Zero Page,Y with an index suffix) exactly when the operand's high byte is
\* 0 and Absolute (Absolute,X, Absolute,Y) exactly when it is not; no operand
\* gives Implied, `A` Accumulator and `#expr` Immediate.  For an instruction
\* that is not a branch this is the mode the line is assembled with.
C31_ModeSelection ==
    \A i \in 1..Len(h_parsed) :
       LET line == h_parsed[i]
       IN /\ line.operand = "" => line.parsed = "IMP"
          /\ line.operand = "A" => line.parsed = "ACC"
          /\ CharAt(line.operand, 1) = "#" => line.parsed = "IMM"
          /\ PlainOperand(line.operand)
                => line.parsed = NarrowestMode(line.target, IndexSuffix(line.operand))
          /\ line.instruction \notin BranchInstructions => line.addressing = line.parsed

\* LDA $0100, the least operand with a high byte, is assembled as Absolute: AD 00 01
C31_Witness ==
    /\ h_outcome = "true"
    /\ \E i \in 1..Len(h_parsed) :
          /\ h_parsed[i].instruction = "LDA" /\ h_parsed[i].operand = "$0100"
          /\ h_parsed[i].target = 256
          /\ h_parsed[i].addressing = "ABS"
          /\ h_parsed[i].bytes = <<173, 0, 1>>

\* the instructions a byte stream decodes to, each with the encoded length of
\* its table row
RECURSIVE Decode(_)
Decode(bytes) ==
    IF bytes = <<>> THEN <<>>
    ELSE IF bytes[1] >= MAX_INSTRUCTIONS THEN <<<<"?", "?">>>>
    ELSE LET row == InstructionDetails[bytes[1] + 1]
         IN <<<<RowInstruction(row), RowAddressing(row)>>>>
            \o (IF RowBytesUsed(row) >= Len(bytes) THEN <<>>
                ELSE Decode(SubSeq(bytes, RowBytesUsed(row) + 1, Len(bytes))))

\* the instructions of the lines the assembler kept
Listing == [i \in 1..Len(m_SourceCode) |-> <<m_SourceCode[i].instruction, m_SourceCode[i].addressing>>]

\* the encoding of a line by the table: the opcode, then as many operand bytes
\* as the row's length asks for, low byte first
TableEncoding(line) ==
    LET row == FindInstructionDetail(line.instruction, line.addressing)
    IN <<RowOpCode(row)>>
       \o SubSeq(<<GET_LOW_BYTE(line.value), GET_HIGH_BYTE(line.value)>>, 1, RowBytesUsed(row) - 1)

\* C32: in a program without labels each emitted instruction is the table's
\* opcode for (mnemonic, addressing) followed by exactly (table length - 1)
\* operand bytes, low byte first, so that decoding the byte code with the
\* table gives back the listing.
C32_RoundTrip ==
    (h_outcome = "true" /\ DOMAIN symbols = {})
       => /\ \A i \in 1..Len(h_parsed) :
                h_parsed[i].bytes # <<>> => h_parsed[i].bytes = TableEncoding(h_parsed[i])
          /\ Decode(m_ByteCode) = Listing

\* C33: a branch at address B whose operand resolves to the target T with
\* -126 <= T - B <= 129 is emitted with Relative addressing and the single
\* operand byte (T - B - 2) mod 256.
C33_BranchTarget ==
    \A i \in 1..Len(h_parsed) :
       LET line == h_parsed[i]
           displacement == line.target - line.instrPC
       IN (/\ line.instruction \in BranchInstructions
           /\ PlainOperand(line.operand)
           /\ displacement >= -126 /\ displacement <= 129)
             => /\ line.addressing = "REL"
                /\ line.bytes = <<RowOpCode(FindInstructionDetail(line.instruction, "REL")),
                                  (displacement - 2) % 256>>

\* the source has no directive, or the one it has comes first and sets the origin
OriginFirst ==
    \/ Find(source, "=", 1) = 0
    \/ /\ CharAt(source, 1) = "*"
       /\ Find(source, "=", Find(source, "=", 1) + 1) = 0

\* C39: at every instruction line the location counter (the value a label on
\* that line receives) is the starting PC offset plus the number of bytes
\* emitted so far, the address the instruction's opcode byte is loaded at.
C39_LocationCounter ==
    (h_outcome = "true" /\ OriginFirst)
       => \A i \in 1..Len(h_parsed) :
             h_parsed[i].instrPC = m_StartingPCOffset + h_parsed[i].before

====
